---- MODULE Spec2Model ----
(***************************************************************************)
(* Verification model of the whisper server core: the single-flight permit *)
(* gate (Semaphore / withNearAiPermit), the RingBuffer, the DedupeStore    *)
(* and the LoreBatcher.  Each component has its own specification; the     *)
(* variables of the components a specification does not drive stay parked. *)
(***************************************************************************)
EXTENDS Integers, Sequences, FiniteSets, TLC

\* ------------------------------------------------------------------ bounds
\* Number of acquire() calls issued in one behaviour.
MaxAcquires == 4
\* Number of times one release capability is called.
MaxReleaseCalls == 2
\* Number of withNearAiPermit calls the call sites make in one behaviour.
MaxSiteCalls == 3
\* withNearAiPermit calls of the call sites followed to their end under
\* fairness
MaxLiveSiteCalls == 2
\* Largest RingBuffer capacity tried, and number of push() calls.
MaxRingCap == 3
MaxPushes == 6
\* Largest DedupeStore capacity tried.
MaxDedupeCap == 2
\* Largest LoreBatcher options tried beside the production ones, and number
\* of ingest() calls.
MaxRoundsCap == 2
MaxBatchSize == 3
MaxPendingCap == 2
MaxIngest == 45
MaxSmallIngest == 5
\* Largest pending ring a drain of the backlog is followed through.
MaxDrainPending == 3
\* Minutes the clock may advance during one lore cycle, and how far from the
\* edges of the marketing window a cycle may start.
MaxElapsed == 2
ClockMargin == 2

\* pushes to the published-lore store, and the ticks of its clock
MaxStorePushes == 12
MaxStoreClock == 2

\* postNow calls, and the local midnights the Marketing Scheduler is followed
\* through
MaxManualTriggers == 1
MaxMarketingDays == 1

\* round numbers delivered to POST /events/round-ended, and deliveries of a
\* round number delivered before
MaxNewRounds == 102
MaxRepeats == 2

\* snapshots given to processRoundSnapshot
MaxOrderSnapshots == 3

\* ------------------------------------------------------- program constants
\* new Semaphore(1)
capacity == 1

\* new PublishedLoreStore(10)
PublishedLoreCapacity == 10

\* MARKETING_RECENT_TEXTS_MAX
MarketingRecentTextsMax == 10

VARIABLES
  \* Semaphore (nearAiClient.ts)
  available,    \* Semaphore.available
  queue,        \* Semaphore.queue: waiters, oldest first
  timers,       \* armed setTimeout handles, by the promise they reject
  promise,      \* state of the promise returned by the k-th acquire()
  released,     \* the `released` flag closed over by the k-th capability
  grantLog,     \* history: promises handed a capability, in grant order,
                \* each with the call that granted it
  \* callers of withNearAiPermit
  acquires,     \* number of acquire() calls so far
  fnState,      \* where the k-th withNearAiPermit call stands
  relCalls,     \* number of calls of the k-th release capability
  \* call sites of the generation backend
  label,        \* the label the k-th withNearAiPermit call was made with
  inCall,       \* the k-th call's fn has a chat.completions.create in flight
  callsMade,    \* generation calls the k-th call's fn has issued
  bootCheck,    \* checkNearAiConnection of startup(): pending, calling, done
  fnEnd,        \* history: how the k-th call's fn ended: returned, or what it threw
  \* RingBuffer (one instance under test)
  rb,           \* the RingBuffer
  pushes,       \* history: number of push() calls
  onlyPushes,   \* history: no drain() was called yet
  lastOp,       \* history: the last call, its result and the ring before it
  refFifo,      \* history: the reference queue under the same calls
  \* DedupeStore (one instance under test)
  dd,           \* the DedupeStore
  refWindow,    \* history: the last K keys that were new, oldest first
  lastMark,     \* history: the last markOnce call and its result
  \* LoreBatcher and the synchronous head of LoreWorker.tick
  opts,         \* LoreBatcherOptions
  rounds,       \* LoreBatcher.rounds
  unbatchedQueue,
  pendingBatches,
  onBatchReady, \* the ready callback is registered
  nearAiApiKey, \* config.nearAiApiKey is set
  busy,         \* LoreWorker.state.busy
  ingested,     \* history: number of ingest() calls
  formedLog,    \* history: every batch formed, in formation order
  lastIngest,   \* history: the pending ring around the last ingest's push
  \* LoreWorker (worker.ts)
  running,      \* the `batch` local of every tick() past its head, oldest first
  lastBatchId,  \* LoreWorker.state.lastBatchId
  lastError,    \* LoreWorker.state.lastError
  drainLog,     \* history: every batch tick() drained, in drain order
  cycleLog,     \* history: every cycle that ended, with its outcome
  notifyLog,    \* history: every call of the ready callback
  lastCall,     \* history: the entry point called last
  lastEnd,      \* history: the last end of a cycle, step by step
  \* one lore cycle of LoreWorker.tick (the try block), its configuration and
  \* the clock
  config,       \* config.publishLoreToX, publishLoreToNearSocial, marketing*
  xAccountIds,  \* the account ids buildLorePayload found in the batch
  now,          \* local minutes since midnight in config.marketingTimezone
  elapsed,      \* minutes the clock advanced since the cycle started
  pc,           \* the await the cycle stands at
  attempt,      \* `attempt` of the x-notification loop
  xText,        \* the secondary text the permit function returned
  skipLog,      \* logger.info('x_publish_skipped_marketing_window', ...)
  xGenCalls,    \* history: writeXNotificationFromLoreUnlocked calls
  windowCheck,  \* history: the marketing window check of the cycle
  xPosts,       \* history: publishLoreToXWithText calls, with their time
  storePushes,  \* history: publishedLoreStore.push calls of the cycle, each
                \* with the publishLoreToXWithText calls made before it
  \* PublishedLoreStore (publishedLoreStore.ts) under the worker's pushes
  store,        \* PublishedLoreStore.buf
  storeClock,   \* Date.now()
  storePushed,  \* history: number of push() calls; the n-th is batch n's
  lastStorePush, \* history: the store's entries around the last push
  \* MarketingPoster (marketingPoster.ts), its timers and the clock
  mkConfig,     \* config.marketingEnabled, marketingTime, marketingJitterMinutes
  mkNow,        \* new Date(): seconds of local time since midnight of day 0
  mkBooted,     \* marketingPoster.start() was called
  poster,       \* the MarketingPoster: task, pendingTimer, inFlight, lastError,
                \* lastPlannedYmd, lastPlannedMinute, stateCache
  mkTimers,     \* the armed setTimeout timers of the poster
  mkSetTimeouts, \* number of setTimeout calls, the next handle
  mkRun,        \* the generateAndPost call past its guards: where it stands
                \* and its locals
  mkHolds,      \* history: withNearAiPermit calls of the run
  mkDrafts,     \* history: the drafts of the run, each with its prompt's hint
  mkManual,     \* history: number of postNow calls
  mkPosts,      \* history: the posts published, oldest first
  lastPlan,     \* history: the last planTodayOrTomorrow call
  lastRun,      \* history: the last generateAndPost run that ended
  autoFires,    \* history: the timer callbacks that ran
  mkTerminated, \* the process died of an unhandled rejection
  \* publishLoreToXWithText (xLorePublisher.ts) and postTweet (postPublisher.ts)
  xpConfig,     \* config.xEnableImages, and isXConfigured()
  xpArgs,       \* the text and the imagePrompt of the call
  xp,           \* where the call stands, and how each of its steps ended
  xpRequests,   \* history: the POST /2/tweets requests sent, oldest first
  xpTweets,     \* history: the posts a request returned a tweet id for
  \* POST /events/round-ended (routes.ts) and processRoundSnapshot
  rtDedupe,     \* `dedupe`, the DedupeStore of registerRoutes
  rtMicrotasks, \* the `.then` callbacks queued and not yet run, oldest first
  rtIngested,   \* history: the round numbers given to loreBatcher.ingest
  rtLog,        \* history: every delivery with a valid payload, its response
                \* and the number of deliveries accepted before it
  rtNext,       \* history: the highest round number delivered so far
  rtRepeats,    \* history: deliveries of a round number delivered before
  \* processRoundSnapshot, the worker and the round-result path on one gate
  ord,          \* the semaphore (available, queue), the withNearAiPermit calls
                \* in the order of their acquire(), and history: the grants
                \* and the generations in the order they happened
  \* getMarketingPolicy / isInMarketingWindowAt as functions of the settings
  winArgs,      \* the base minute and config.marketingWindowMinutes
  winResult     \* the last call: the minute tested or picked, and the answer

semVars == <<available, queue, timers, promise, released, grantLog>>
callerVars == <<acquires, fnState, relCalls>>
gateVars == <<label, inCall, callsMade, bootCheck, fnEnd>>
ringVars == <<rb, pushes, onlyPushes, lastOp, refFifo>>
dedupeVars == <<dd, refWindow, lastMark>>
batcherVars == <<opts, rounds, unbatchedQueue, pendingBatches, onBatchReady,
                 nearAiApiKey, busy, ingested, formedLog, lastIngest>>
workerVars == <<running, lastBatchId, lastError, drainLog, cycleLog, notifyLog,
                lastCall, lastEnd>>
loreCycleVars == <<config, xAccountIds, now, elapsed, pc, attempt, xText,
                   skipLog, xGenCalls, windowCheck, xPosts, storePushes>>
storeVars == <<store, storeClock, storePushed, lastStorePush>>
marketingVars == <<mkConfig, mkNow, mkBooted, poster, mkTimers, mkSetTimeouts,
                   mkRun, mkHolds, mkDrafts, mkManual, mkPosts, lastPlan,
                   lastRun, autoFires, mkTerminated>>
xPublishVars == <<xpConfig, xpArgs, xp, xpRequests, xpTweets>>
routeVars == <<rtDedupe, rtMicrotasks, rtIngested, rtLog, rtNext, rtRepeats>>
orderVars == <<ord>>
windowVars == <<winArgs, winResult>>
vars == <<semVars, callerVars, gateVars, ringVars, dedupeVars, batcherVars,
          workerVars, loreCycleVars,
  storeVars,
  marketingVars,
  xPublishVars,
  routeVars,
  orderVars,
  windowVars>>

Tickets == 1..MaxAcquires

\* ---------------------------------------------------------------- helpers
\* queue.indexOf(waiter): 1-based index of the waiter of promise k, 0 if absent
RECURSIVE IndexFrom(_, _, _)
IndexFrom(s, k, i) ==
  IF i > Len(s) THEN 0
  ELSE IF s[i].p = k THEN i
  ELSE IndexFrom(s, k, i + 1)

indexOf(s, k) == IndexFrom(s, k, 1)

\* array.splice(idx, 1) on a 1-based index
splice1(s, idx) == SubSeq(s, 1, idx - 1) \o SubSeq(s, idx + 1, Len(s))

\* A promise settles once: resolve() and reject() on a settled promise do nothing.
Resolve(pr, k) == IF pr[k] = "pending" THEN [pr EXCEPT ![k] = "resolved"] ELSE pr
Reject(pr, k) == IF pr[k] = "pending" THEN [pr EXCEPT ![k] = "rejected"] ELSE pr

\* timeoutMs is optional: <<>> is undefined, <<n>> a number.
TimeoutInputs == {<<>>, <<-1>>, <<0>>, <<1>>}
\* `if (timeoutMs && timeoutMs > 0)`
HasTimer(timeoutMs) == timeoutMs # <<>> /\ timeoutMs[1] # 0 /\ timeoutMs[1] > 0

\* --------------------------------------------------------------- Semaphore
\* acquire() that forgets `this.available -= 1` on the fast path
acquire_noDecrement(k, timeoutMs) ==
  IF available > 0
  THEN /\ promise' = [promise EXCEPT ![k] = "resolved"]
       /\ grantLog' = Append(grantLog, [p |-> k, via |-> "acquire"])
       /\ UNCHANGED <<available, queue, timers, released>>
  ELSE /\ promise' = [promise EXCEPT ![k] = "pending"]
       /\ queue' = Append(queue, [p |-> k, timer |-> HasTimer(timeoutMs)])
       /\ timers' = IF HasTimer(timeoutMs) THEN timers \cup {k} ELSE timers
       /\ UNCHANGED <<available, released, grantLog>>

\* Semaphore.acquire(timeoutMs) returning promise k
acquire(k, timeoutMs) ==
  IF available > 0
  THEN /\ available' = available - 1
       /\ promise' = [promise EXCEPT ![k] = "resolved"]
       /\ grantLog' = Append(grantLog, [p |-> k, via |-> "acquire"])
       /\ UNCHANGED <<queue, timers, released>>
  ELSE /\ promise' = [promise EXCEPT ![k] = "pending"]
       /\ queue' = Append(queue, [p |-> k, timer |-> HasTimer(timeoutMs)])
       /\ timers' = IF HasTimer(timeoutMs) THEN timers \cup {k} ELSE timers
       /\ UNCHANGED <<available, released, grantLog>>

\* a timeout callback that rejects without removing the waiter from the queue
timeoutCallback_noSplice(k) ==
  /\ k \in timers
  /\ timers' = timers \ {k}
  /\ promise' = Reject(promise, k)
  /\ UNCHANGED <<available, queue, released, grantLog>>

\* the setTimeout callback armed by acquire() for promise k
timeoutCallback(k) ==
  /\ k \in timers
  /\ timers' = timers \ {k}
  /\ LET idx == indexOf(queue, k)
     IN queue' = IF idx >= 1 THEN splice1(queue, idx) ELSE queue
  /\ promise' = Reject(promise, k)
  /\ UNCHANGED <<available, released, grantLog>>

\* a release closure without the `if (released) return` guard
releaseFn_noGuard(k) ==
  /\ released' = [released EXCEPT ![k] = TRUE]
  /\ IF queue = <<>>
     THEN /\ available' = available + 1
          /\ UNCHANGED <<queue, timers, promise, grantLog>>
     ELSE LET next == Head(queue)
          IN /\ queue' = Tail(queue)
             /\ timers' = IF next.timer THEN timers \ {next.p} ELSE timers
             /\ available' = (available + 1) - 1
             /\ promise' = Resolve(promise, next.p)
             /\ grantLog' = Append(grantLog, [p |-> next.p, via |-> "release"])

\* a release closure that serves the newest waiter (queue.pop() for queue.shift())
releaseFn_pop(k) ==
  IF released[k]
  THEN UNCHANGED semVars
  ELSE /\ released' = [released EXCEPT ![k] = TRUE]
       /\ IF queue = <<>>
          THEN /\ available' = available + 1
               /\ UNCHANGED <<queue, timers, promise, grantLog>>
          ELSE LET next == queue[Len(queue)]
               IN /\ queue' = SubSeq(queue, 1, Len(queue) - 1)
                  /\ timers' = IF next.timer THEN timers \ {next.p} ELSE timers
                  /\ available' = (available + 1) - 1
                  /\ promise' = Resolve(promise, next.p)
                  /\ grantLog' = Append(grantLog, [p |-> next.p, via |-> "release"])

\* a release closure that frees the slot and wakes no waiter
releaseFn_noHandOff(k) ==
  IF released[k]
  THEN UNCHANGED semVars
  ELSE /\ released' = [released EXCEPT ![k] = TRUE]
       /\ available' = available + 1
       /\ UNCHANGED <<queue, timers, promise, grantLog>>

\* the closure returned by makeRelease() for promise k
releaseFn(k) ==
  IF released[k]
  THEN UNCHANGED semVars
  ELSE /\ released' = [released EXCEPT ![k] = TRUE]
       /\ IF queue = <<>>
          THEN /\ available' = available + 1
               /\ UNCHANGED <<queue, timers, promise, grantLog>>
          ELSE LET next == Head(queue)
               IN /\ queue' = Tail(queue)
                  /\ timers' = IF next.timer THEN timers \ {next.p} ELSE timers
                  /\ available' = (available + 1) - 1
                  /\ promise' = Resolve(promise, next.p)
                  /\ grantLog' = Append(grantLog, [p |-> next.p, via |-> "release"])

\* -------------------------------------------------------- withNearAiPermit
\* withNearAiPermit up to `await sem.acquire(opts?.queueTimeoutMs)`
PermitCall(timeoutMs) ==
  /\ acquires < MaxAcquires
  /\ acquires' = acquires + 1
  /\ acquire(acquires + 1, timeoutMs)
  /\ fnState' = [fnState EXCEPT ![acquires + 1] = "awaiting"]
  /\ UNCHANGED relCalls

\* the await resumes with the capability: fn() starts
PermitResume(k) ==
  /\ fnState[k] = "awaiting"
  /\ promise[k] = "resolved"
  /\ fnState' = [fnState EXCEPT ![k] = "running"]
  /\ UNCHANGED <<semVars, acquires, relCalls>>

\* the await throws the timeout error: fn() is never called
PermitRejected(k) ==
  /\ fnState[k] = "awaiting"
  /\ promise[k] = "rejected"
  /\ fnState' = [fnState EXCEPT ![k] = "failed"]
  /\ UNCHANGED <<semVars, acquires, relCalls>>

\* fn() returned or threw: `finally { release() }`
PermitFinally(k) ==
  /\ fnState[k] = "running"
  /\ releaseFn(k)
  /\ fnState' = [fnState EXCEPT ![k] = "done"]
  /\ relCalls' = [relCalls EXCEPT ![k] = relCalls[k] + 1]
  /\ UNCHANGED acquires

\* a holder calling its release capability once more
ReleaseAgain(k) ==
  /\ fnState[k] = "done"
  /\ relCalls[k] < MaxReleaseCalls
  /\ releaseFn(k)
  /\ relCalls' = [relCalls EXCEPT ![k] = relCalls[k] + 1]
  /\ UNCHANGED <<acquires, fnState>>

\* a queue timeout expires
TimerFires(k) ==
  /\ timeoutCallback(k)
  /\ UNCHANGED <<acquires, fnState, relCalls>>

\* ---------------------------------------------- generation call sites
\* `for (let attempt = 1; attempt <= 4; attempt++)` of the lore cycle
XNotificationAttempts == 4
\* `const maxAttempts = 2` of generateMarketingTextWithRetries
MarketingMaxAttempts == 2

\* the labels withNearAiPermit is called with by the live call sites
Labels == {"round_result", "lore_cycle", "marketing_post"}

\* chat.completions.create calls the guarded function of a label may issue
MaxCallsOf(l) ==
  CASE l = "round_result" -> 1
    [] l = "lore_cycle" -> 1 + XNotificationAttempts
    [] l = "marketing_post" -> MarketingMaxAttempts
    [] OTHER -> 0

\* LoreWorker.state.busy / MarketingPoster.inFlight: one run of the site at a time
Unfinished(l) ==
  \E k \in Tickets : label[k] = l /\ fnState[k] \in {"awaiting", "running"}

\* a call site reaches withNearAiPermit(label, fn); no site passes queueTimeoutMs
SiteCall(l) ==
  /\ acquires < MaxSiteCalls
  /\ l \in {"lore_cycle", "marketing_post"} => ~Unfinished(l)
  /\ PermitCall(<<>>)
  /\ label' = [label EXCEPT ![acquires + 1] = l]
  /\ UNCHANGED <<inCall, callsMade, bootCheck, fnEnd>>

\* the permit is granted and the guarded function starts
SiteFnStart(k) ==
  /\ PermitResume(k)
  /\ UNCHANGED gateVars

\* the guarded function issues client.chat.completions.create
GenCallStart(k) ==
  /\ fnState[k] = "running"
  /\ ~inCall[k]
  /\ callsMade[k] < MaxCallsOf(label[k])
  /\ inCall' = [inCall EXCEPT ![k] = TRUE]
  /\ callsMade' = [callsMade EXCEPT ![k] = callsMade[k] + 1]
  /\ UNCHANGED <<semVars, callerVars, label, bootCheck, fnEnd>>

\* the generation call returns or throws
GenCallEnd(k) ==
  /\ inCall[k]
  /\ inCall' = [inCall EXCEPT ![k] = FALSE]
  /\ UNCHANGED <<semVars, callerVars, label, callsMade, bootCheck, fnEnd>>

\* a guarded function that gives the permit back after a call and goes on
SiteFnEnd_releaseEarly(k) ==
  /\ ~inCall[k]
  /\ callsMade[k] >= 1
  /\ fnState[k] = "running"
  /\ ~released[k]
  /\ releaseFn(k)
  /\ relCalls' = [relCalls EXCEPT ![k] = relCalls[k] + 1]
  /\ UNCHANGED <<acquires, fnState>>
  /\ UNCHANGED gateVars

\* the ways a guarded function ends: it returns, it throws the error of a
\* generation call (a failure, or the abort by its deadline), or it throws
\* for an attempt loop that accepted no text
FnEnds == {"returned", "call_failed", "validation_exhausted"}

\* only the lore cycle throws for having accepted no text, after the
\* calls of all its attempts (the marketing loop returns its last draft)
FnMayEnd(k, how) ==
  CASE how = "returned" -> callsMade[k] >= 1
    [] how = "validation_exhausted" ->
         /\ label[k] = "lore_cycle"
         /\ callsMade[k] = MaxCallsOf(label[k])
    [] OTHER -> callsMade[k] >= 1

\* a withNearAiPermit without the finally: a function that throws keeps
\* the permit
SiteFnEnd_noFinally(k) ==
  /\ ~inCall[k]
  /\ \E how \in FnEnds :
       /\ FnMayEnd(k, how)
       /\ fnEnd' = [fnEnd EXCEPT ![k] = how]
       /\ IF how = "returned"
          THEN PermitFinally(k)
          ELSE /\ fnState[k] = "running"
               /\ fnState' = [fnState EXCEPT ![k] = "done"]
               /\ UNCHANGED <<semVars, acquires, relCalls>>
  /\ UNCHANGED <<label, inCall, callsMade, bootCheck>>

\* the guarded function returns or throws after its calls: finally release()
SiteFnEnd(k) ==
  /\ ~inCall[k]
  /\ \E how \in FnEnds :
       /\ FnMayEnd(k, how)
       /\ fnEnd' = [fnEnd EXCEPT ![k] = how]
  /\ PermitFinally(k)
  /\ UNCHANGED <<label, inCall, callsMade, bootCheck>>

\* startup(): checkNearAiConnection issues chat.completions.create
BootCheckStart ==
  /\ bootCheck = "pending"
  /\ bootCheck' = "calling"
  /\ UNCHANGED <<semVars, callerVars, label, inCall, callsMade, fnEnd>>

\* the boot-time check returns
BootCheckEnd ==
  /\ bootCheck = "calling"
  /\ bootCheck' = "done"
  /\ UNCHANGED <<semVars, callerVars, label, inCall, callsMade, fnEnd>>

\* -------------------------------------------------------------- RingBuffer
\* An optional value (T | undefined): <<>> is undefined, <<v>> is v.
Min(a, b) == IF a <= b THEN a ELSE b

\* new RingBuffer(capacity)
RingNew(c) ==
  [capacity |-> c, buf |-> [i \in 0..(c - 1) |-> <<>>], head |-> 0, size |-> 0]

\* push() that overwrites the newest element when full
RingPush_dropNewest(r, item) ==
  LET full == r.size = r.capacity
      last == (r.head + r.size - 1) % r.capacity
  IN IF full
     THEN [ring |-> [r EXCEPT !.buf[last] = <<item>>], dropped |-> r.buf[last]]
     ELSE [ring |-> [r EXCEPT !.buf[(r.head + r.size) % r.capacity] = <<item>>,
                              !.size = r.size + 1],
           dropped |-> <<>>]

\* RingBuffer.push(item): the ring after it and the dropped element
RingPush(r, item) ==
  LET full == r.size = r.capacity
      dropped == IF full THEN r.buf[r.head] ELSE <<>>
      r1 == IF full
            THEN [r EXCEPT !.buf[r.head] = <<>>,
                           !.head = (r.head + 1) % r.capacity,
                           !.size = r.size - 1]
            ELSE r
      tail == (r1.head + r1.size) % r1.capacity
  IN [ring |-> [r1 EXCEPT !.buf[tail] = <<item>>, !.size = r1.size + 1],
      dropped |-> dropped]

\* the loop of toArray() and drain(): the defined slots head+i .. head+n-1
RECURSIVE RingSlots(_, _, _)
RingSlots(r, i, n) ==
  IF i >= n THEN <<>>
  ELSE r.buf[(r.head + i) % r.capacity] \o RingSlots(r, i + 1, n)

\* toArray() that reads the backing array from its first slot
RingToArray_fromZero(r) == RingSlots([r EXCEPT !.head = 0], 0, r.size)

\* RingBuffer.toArray()
RingToArray(r) == RingSlots(r, 0, r.size)

\* drain() that returns the elements but leaves the window where it was
RingDrain_keepHead(r, n) ==
  IF n <= 0 THEN [ring |-> r, out |-> <<>>]
  ELSE LET count == Min(n, r.size)
           idxs == {(r.head + i) % r.capacity : i \in 0..(count - 1)}
       IN [ring |-> [r EXCEPT !.buf = [j \in 0..(r.capacity - 1) |->
                                        IF j \in idxs THEN <<>> ELSE r.buf[j]],
                              !.size = r.size - count],
           out |-> RingSlots(r, 0, count)]

\* RingBuffer.drain(n), n an integer: the ring after it and the drained elements
RingDrain(r, n) ==
  IF n <= 0 THEN [ring |-> r, out |-> <<>>]
  ELSE LET count == Min(n, r.size)
           idxs == {(r.head + i) % r.capacity : i \in 0..(count - 1)}
       IN [ring |-> [r EXCEPT !.buf = [j \in 0..(r.capacity - 1) |->
                                        IF j \in idxs THEN <<>> ELSE r.buf[j]],
                              !.head = (r.head + count) % r.capacity,
                              !.size = r.size - count],
           out |-> RingSlots(r, 0, count)]

\* The queue the ring is compared with: a sequence that appends on push,
\* dropping its head first when it holds `capacity` elements, and loses its
\* first min(n, length) elements on drain.
RefPush(f, item, cap) ==
  IF Len(f) = cap THEN Append(Tail(f), item) ELSE Append(f, item)

RefDrain(f, n) ==
  LET count == Min(n, Len(f))
  IN IF count <= 0 THEN f ELSE SubSeq(f, count + 1, Len(f))

\* the driver calls push(); the n-th push carries the item n
Push ==
  /\ pushes < MaxPushes
  /\ LET res == RingPush(rb, pushes + 1)
     IN /\ rb' = res.ring
        /\ lastOp' = [op |-> "push", arg |-> pushes + 1, before |-> rb,
                      dropped |-> res.dropped, out |-> <<>>]
  /\ pushes' = pushes + 1
  /\ refFifo' = RefPush(refFifo, pushes + 1, rb.capacity)
  /\ UNCHANGED onlyPushes

\* the driver calls drain(n)
Drain(n) ==
  /\ LET res == RingDrain(rb, n)
     IN /\ rb' = res.ring
        /\ lastOp' = [op |-> "drain", arg |-> n, before |-> rb,
                      dropped |-> <<>>, out |-> res.out]
  /\ onlyPushes' = FALSE
  /\ refFifo' = RefDrain(refFifo, n)
  /\ UNCHANGED pushes

\* ------------------------------------------------------------- DedupeStore
\* the key strings the driver marks; "" is the empty string
Keys == {"", "a", "b", "c"}

\* new DedupeStore(capacity)
DedupeNew(c) == [set |-> {}, queue |-> <<>>, capacity |-> c]

\* JavaScript truthiness of a string
Truthy(str) == str # ""

\* `while (queue.length > capacity) { oldest = queue.shift(); if (oldest) set.delete(oldest) }`
RECURSIVE EvictPastCapacity(_)
EvictPastCapacity(d) ==
  IF Len(d.queue) > d.capacity
  THEN LET oldest == Head(d.queue)
       IN EvictPastCapacity([d EXCEPT !.queue = Tail(d.queue),
                                      !.set = IF Truthy(oldest)
                                              THEN d.set \ {oldest}
                                              ELSE d.set])
  ELSE d

\* DedupeStore.markOnce(key): the store after it and the returned boolean
markOnce(d, key) ==
  IF key \in d.set
  THEN [store |-> d, ret |-> FALSE]
  ELSE [store |-> EvictPastCapacity([d EXCEPT !.set = d.set \cup {key},
                                              !.queue = Append(d.queue, key)]),
        ret |-> TRUE]

\* The window the claims describe: the last K keys that were new, oldest first.
RefMark(w, key, k) ==
  IF \E i \in 1..Len(w) : w[i] = key
  THEN w
  ELSE LET w1 == Append(w, key)
       IN IF Len(w1) > k THEN Tail(w1) ELSE w1

\* the driver calls markOnce(key)
MarkOnce(key) ==
  /\ LET res == markOnce(dd, key)
     IN /\ dd' = res.store
        /\ lastMark' = [called |-> TRUE, key |-> key, ret |-> res.ret,
                        inWindow |-> \E i \in 1..Len(refWindow) : refWindow[i] = key]
  /\ refWindow' = RefMark(refWindow, key, dd.capacity)

\* ------------------------------------------------------------- LoreBatcher
\* `export const loreBatcher = new LoreBatcher({...})`
ProdRoundsCapacity == 100
ProdBatchSize == 20
ProdPendingCapacity == 10

ProdOpts ==
  [roundsCapacity |-> ProdRoundsCapacity, batchSize |-> ProdBatchSize,
   pendingCapacity |-> ProdPendingCapacity]

\* the options a LoreBatcher is constructed with
OptsChoices ==
  {[roundsCapacity |-> r, batchSize |-> b, pendingCapacity |-> p] :
     r \in 1..MaxRoundsCap, b \in 1..MaxBatchSize, p \in 1..MaxPendingCap}
  \cup {ProdOpts}

\* `const batch: LoreBatch = { id, createdAt, rounds }`; a record is its roundNumber
MakeBatch(rs) == [id |-> <<rs[1], rs[Len(rs)]>>, rounds |-> rs]

\* a head of tick() that drains while a cycle is in progress
TickHead_noBusyCheck(pb, b) ==
  IF ~nearAiApiKey
  THEN [pending |-> pb, busy |-> b, batch |-> <<>>]
  ELSE LET d == RingDrain(pb, 1)
       IN IF d.out = <<>>
          THEN [pending |-> pb, busy |-> b, batch |-> <<>>]
          ELSE [pending |-> d.ring, busy |-> TRUE, batch |-> d.out]

\* a head of tick() that drains without the generation key
TickHead_noKeyCheck(pb, b) ==
  IF b
  THEN [pending |-> pb, busy |-> b, batch |-> <<>>]
  ELSE LET d == RingDrain(pb, 1)
       IN IF d.out = <<>>
          THEN [pending |-> pb, busy |-> b, batch |-> <<>>]
          ELSE [pending |-> d.ring, busy |-> TRUE, batch |-> d.out]

\* a head of tick() that reads the oldest pending batch and leaves it pending
TickHead_peek(pb, b) ==
  IF b \/ ~nearAiApiKey
  THEN [pending |-> pb, busy |-> b, batch |-> <<>>]
  ELSE LET d == RingDrain(pb, 1)
       IN IF d.out = <<>>
          THEN [pending |-> pb, busy |-> b, batch |-> <<>>]
          ELSE [pending |-> pb, busy |-> TRUE, batch |-> d.out]

\* The synchronous head of LoreWorker.tick(), up to `this.state.busy = true`:
\* the pending ring and the busy flag after it, and the batch it drained.
TickHead(pb, b) ==
  IF b \/ ~nearAiApiKey
  THEN [pending |-> pb, busy |-> b, batch |-> <<>>]
  ELSE LET d == RingDrain(pb, 1)
       IN IF d.out = <<>>
          THEN [pending |-> pb, busy |-> b, batch |-> <<>>]
          ELSE [pending |-> d.ring, busy |-> TRUE, batch |-> d.out]

\* LoreWorker.tick() up to its first await (the acquire of the lore_cycle
\* permit), on the state it shares with ingest and with the finally block
tick(st) ==
  LET t == TickHead(st.pending, st.busy)
  IN IF t.batch = <<>>
     THEN st
     ELSE [st EXCEPT !.pending = t.pending,
                     !.busy = t.busy,
                     !.lastBatchId = <<t.batch[1].id>>,
                     !.lastError = <<>>,
                     !.running = Append(@, t.batch[1]),
                     !.drained = Append(@, t.batch[1])]

\* a callback that is called twice for one batch
ReadyCallback_twice(st) ==
  IF onBatchReady
  THEN LET n == [batch |-> st.last.batch[1],
                 pending |-> RingToArray(st.pending)]
       IN tick(tick([st EXCEPT !.notified = Append(Append(@, n), n)]))
  ELSE st

\* `this.onBatchReady?.()`: startup registers () => loreWorker.scheduleRun()
ReadyCallback(st) ==
  IF onBatchReady
  THEN tick([st EXCEPT !.notified =
                         Append(@, [batch |-> st.last.batch[1],
                                    pending |-> RingToArray(st.pending)])])
  ELSE st

\* `this.pendingBatches.push(batch)`; the dropped element is not looked at
PushPending_refuseWhenFull(pb, batch) ==
  IF pb.size = pb.capacity THEN pb ELSE RingPush(pb, batch).ring

PushPending(pb, batch) == RingPush(pb, batch).ring

\* a batch loop that compares with > where the code has >=
RECURSIVE FormBatches_offByOne(_)
FormBatches_offByOne(st) ==
  IF Len(st.q) > opts.batchSize
  THEN LET batch == MakeBatch(SubSeq(st.q, 1, opts.batchSize))
           pushed == PushPending(st.pending, batch)
       IN FormBatches_offByOne(ReadyCallback(
            [st EXCEPT !.q = SubSeq(st.q, opts.batchSize + 1, Len(st.q)),
                       !.pending = pushed,
                       !.formed = Append(st.formed, batch),
                       !.last = [before |-> RingToArray(st.pending),
                                 batch |-> <<batch>>,
                                 after |-> RingToArray(pushed)]]))
  ELSE st

\* `while (this.unbatchedQueue.length >= this.opts.batchSize) { ... }`
RECURSIVE FormBatches(_)
FormBatches(st) ==
  IF Len(st.q) >= opts.batchSize
  THEN LET batch == MakeBatch(SubSeq(st.q, 1, opts.batchSize))
           pushed == PushPending(st.pending, batch)
       IN FormBatches(ReadyCallback(
            [st EXCEPT !.q = SubSeq(st.q, opts.batchSize + 1, Len(st.q)),
                       !.pending = pushed,
                       !.formed = Append(st.formed, batch),
                       !.last = [before |-> RingToArray(st.pending),
                                 batch |-> <<batch>>,
                                 after |-> RingToArray(pushed)]]))
  ELSE st

\* the state that ingest, tick and the end of a cycle work on
WorkerSt ==
  [q |-> unbatchedQueue, pending |-> pendingBatches, busy |-> busy,
   formed |-> formedLog,
   last |-> [before |-> RingToArray(pendingBatches), batch |-> <<>>,
             after |-> RingToArray(pendingBatches)],
   running |-> running, lastBatchId |-> lastBatchId, lastError |-> lastError,
   drained |-> drainLog, notified |-> notifyLog]

Commit(st) ==
  /\ unbatchedQueue' = st.q
  /\ pendingBatches' = st.pending
  /\ busy' = st.busy
  /\ formedLog' = st.formed
  /\ running' = st.running
  /\ lastBatchId' = st.lastBatchId
  /\ lastError' = st.lastError
  /\ drainLog' = st.drained
  /\ notifyLog' = st.notified

\* records ingested at most: MaxIngest with the production options, so that
\* batches of 20 form; MaxSmallIngest with the small ones
IngestCap == IF opts = ProdOpts THEN MaxIngest ELSE MaxSmallIngest

\* an ingest that takes the record the rounds ring evicts out of the unbatched
\* queue as well
Ingest_evictFromQueue ==
  /\ ingested < IngestCap
  /\ LET record == ingested + 1
         pushed == RingPush(rounds, record)
         kept == SelectSeq(unbatchedQueue, LAMBDA x : <<x>> # pushed.dropped)
         st == FormBatches([WorkerSt EXCEPT !.q = Append(kept, record)])
     IN /\ rounds' = pushed.ring
        /\ Commit(st)
        /\ lastIngest' = st.last
  /\ ingested' = ingested + 1
  /\ lastCall' = "ingest"
  /\ UNCHANGED <<opts, onBatchReady, nearAiApiKey, cycleLog, lastEnd>>

\* LoreBatcher.ingest(record), the ready callback it fires included
Ingest ==
  /\ ingested < IngestCap
  /\ LET record == ingested + 1
         st == FormBatches([WorkerSt EXCEPT !.q = Append(unbatchedQueue, record)])
     IN /\ rounds' = RingPush(rounds, record).ring
        /\ Commit(st)
        /\ lastIngest' = st.last
  /\ ingested' = ingested + 1
  /\ lastCall' = "ingest"
  /\ UNCHANGED <<opts, onBatchReady, nearAiApiKey, cycleLog, lastEnd>>

\* startup(): loreBatcher.setOnBatchReady(() => loreWorker.scheduleRun())
SetOnBatchReady ==
  /\ ~onBatchReady
  /\ onBatchReady' = TRUE
  /\ lastCall' = "setOnBatchReady"
  /\ UNCHANGED <<opts, rounds, unbatchedQueue, pendingBatches, nearAiApiKey,
                 busy, ingested, formedLog, lastIngest, running, lastBatchId,
                 lastError, drainLog, cycleLog, notifyLog, lastEnd>>

\* POST /lore/worker/run-once: loreWorker.runOnce() up to its first await
RunOnce ==
  /\ Commit(tick(WorkerSt))
  /\ lastCall' = "runOnce"
  /\ UNCHANGED <<opts, rounds, onBatchReady, nearAiApiKey, ingested, lastIngest,
                 cycleLog, lastEnd>>

\* `catch (err) { this.state.lastError = String(err); ... }`
Catch(st, failed) ==
  IF failed THEN [st EXCEPT !.lastError = <<"err">>] ELSE st

\* a finally block that never calls tick() again
Finally_noRetick(st) == [st EXCEPT !.busy = FALSE]

\* a finally block that puts the batch of the cycle back into the pending ring
Finally_requeue(st) ==
  LET idle == [st EXCEPT !.busy = FALSE,
                         !.pending = IF st.lastBatchId = <<>> \/ st.drained = <<>>
                                     THEN @
                                     ELSE PushPending(@, st.drained[Len(st.drained)])]
  IN IF idle.pending.size > 0 THEN tick(idle) ELSE idle

\* a finally block that checks for pending batches before it clears busy
Finally_tickBeforeClear(st) ==
  LET t == IF st.pending.size > 0 THEN tick(st) ELSE st
  IN [t EXCEPT !.busy = FALSE]

\* `finally { this.state.busy = false; if (pending > 0) void this.tick(); }`
Finally(st) ==
  LET idle == [st EXCEPT !.busy = FALSE]
  IN IF idle.pending.size > 0 THEN tick(idle) ELSE idle

\* The cycle of the i-th running tick() ends: its try block returns
\* (failed = FALSE) or one of its steps throws (failed = TRUE); then catch and
\* finally run, the tick() the finally block calls included.
CycleEnds(i, failed) ==
  /\ i \in 1..Len(running)
  /\ LET b == running[i]
         rest == [j \in 1..(Len(running) - 1) |->
                    IF j < i THEN running[j] ELSE running[j + 1]]
         caught == Catch([WorkerSt EXCEPT !.running = rest], failed)
         st == Finally(caught)
     IN /\ Commit(st)
        /\ cycleLog' = Append(cycleLog, [batch |-> b, failed |-> failed])
        /\ lastEnd' = [called |-> TRUE, failed |-> failed, batch |-> <<b>>,
                       caught |-> caught.lastError,
                       pendingBefore |-> RingToArray(pendingBatches),
                       pendingAfter |-> RingToArray(st.pending),
                       busyAfter |-> st.busy,
                       runningAfter |-> st.running,
                       errorAfter |-> st.lastError]
  /\ lastCall' = "cycleEnds"
  /\ UNCHANGED <<opts, rounds, onBatchReady, nearAiApiKey, ingested, lastIngest>>

\* ------------------------------------------------- marketing window policy
MinutesPerDay == 1440
\* `marketingWindowMinutes: Number(process.env... || 60)`
marketingWindowMinutes == 60

\* a range check that leaves the end minute out
isInCircularRange_endExclusive(min, start, end) ==
  IF start <= end
  THEN min >= start /\ min < end
  ELSE min >= start \/ min < end

\* isInCircularRange(min, start, end): a range on the 0..1439 circle
isInCircularRange(min, start, end) ==
  IF start <= end
  THEN min >= start /\ min <= end
  ELSE min >= start \/ min <= end

\* getMarketingPolicy(): enabled and the window around config.marketingTime
getMarketingPolicy(c) ==
  LET base == c.marketingTime
      half == marketingWindowMinutes \div 2
  IN [enabled |-> c.marketingEnabled,
      baseMinutes |-> base,
      jitterMinutes |-> IF c.marketingJitterMinutes > 0
                        THEN c.marketingJitterMinutes ELSE 0,
      windowStartMinutes |-> (base - half + MinutesPerDay) % MinutesPerDay,
      windowEndMinutes |-> (base + half) % MinutesPerDay]

\* isInMarketingWindowAt(date), date given by its local minutes since midnight
isInMarketingWindowAt(c, nowMin) ==
  LET p == getMarketingPolicy(c)
  IN isInCircularRange(nowMin, p.windowStartMinutes, p.windowEndMinutes)

\* ------------------------------------------------ x-notification acceptance
\* t.includes(id), for an id that is one token
InTokens(id, text) == \E i \in 1..Len(text) : text[i] = id

\* A text is a sequence of tokens joined by single blanks.
Tokens ==
  {"word", "alice.near", "bob.near", "http://", "WWW.", "#tag", "#", "filler250"}

\* characters of a token; "filler250" stands for 250 characters of prose
TokenLength(t) ==
  CASE t = "word" -> 4
    [] t = "alice.near" -> 10
    [] t = "bob.near" -> 8
    [] t = "http://" -> 7
    [] t = "WWW." -> 4
    [] t = "#tag" -> 4
    [] t = "#" -> 1
    [] t = "filler250" -> 250
    [] OTHER -> 0

\* text.length
RECURSIVE TextLength(_)
TextLength(text) ==
  IF text = <<>> THEN 0
  ELSE IF Len(text) = 1 THEN TokenLength(text[1])
  ELSE TokenLength(text[1]) + 1 + TextLength(Tail(text))

\* `if (text.length > 260) return false`
XNotificationMaxChars == 260

\* /(https?:\/\/|www\.)/i.test(text)
hasUrlLike(text) == \E i \in 1..Len(text) : text[i] \in {"http://", "WWW."}

\* /#\w+/.test(text): a '#' directly followed by a word character
hasHashtag(text) == \E i \in 1..Len(text) : text[i] = "#tag"

\* containsAllAccountIds(text, accountIds)
containsAllAccountIds(text, accountIds) ==
  IF Len(accountIds) = 0
  THEN TRUE
  ELSE \A i \in 1..Len(accountIds) :
         accountIds[i] # "" /\ InTokens(accountIds[i], text)

\* isValidXNotificationText(text, accountIds = [])
isValidXNotificationText(text, accountIds) ==
  /\ text # <<>>
  /\ TextLength(text) <= XNotificationMaxChars
  /\ ~hasUrlLike(text)
  /\ ~hasHashtag(text)
  /\ containsAllAccountIds(text, accountIds)

\* the texts the generation collaborator may return
Texts ==
  {<<>>,
   <<"word">>,
   <<"alice.near", "word">>,
   <<"alice.near", "bob.near", "word">>,
   <<"alice.near", "bob.near", "http://">>,
   <<"alice.near", "bob.near", "WWW.">>,
   <<"alice.near", "bob.near", "#tag">>,
   <<"alice.near", "bob.near", "#", "word">>,
   <<"alice.near", "bob.near", "filler250">>}

\* ------------------------------------------- one lore cycle of LoreWorker
\* the marketing times tried: the default 20:00, and two whose window wraps
\* midnight
MarketingTimes == {1200, 10, 1425}

Configs ==
  [publishLoreToX : BOOLEAN, publishLoreToNearSocial : BOOLEAN,
   marketingEnabled : BOOLEAN, marketingTime : MarketingTimes,
   marketingJitterMinutes : {15}]

\* minutes at most d away from minute m on the 0..1439 circle
Around(m, d) == {(m + k + MinutesPerDay) % MinutesPerDay : k \in (0 - d)..d}

\* the minutes a cycle may start at: around both edges of the window, at its
\* centre, far from it, and at both ends of the day
StartMinutes(c) ==
  LET p == getMarketingPolicy(c)
  IN Around(p.windowStartMinutes, ClockMargin)
       \cup Around(p.windowEndMinutes, ClockMargin)
       \cup {p.baseMinutes, (p.baseMinutes + 720) % MinutesPerDay, 0, 1439}

\* `if (config.publishLoreToX && xText) await publishLoreToXWithText(...)`,
\* reached after STEP 2
PublishXStep(text) ==
  IF config.publishLoreToX /\ text # <<>>
  THEN /\ xPosts' = Append(xPosts, [at |-> now, text |-> text[1]])
       /\ pc' = "publishX"
  ELSE /\ xPosts' = xPosts
       /\ pc' = "done"

\* writeLoreUnlocked settles; on a lore the permit function goes on to the
\* publishLoreToX test, the marketing window test and the first attempt
WriteLoreSettles(ok) ==
  /\ pc = "writeLore"
  /\ IF ~ok
     THEN /\ pc' = "failed"
          /\ UNCHANGED <<attempt, skipLog, xGenCalls, windowCheck>>
     ELSE IF ~config.publishLoreToX
     THEN /\ pc' = "permitReleased"
          /\ UNCHANGED <<attempt, skipLog, xGenCalls, windowCheck>>
     ELSE LET marketing == getMarketingPolicy(config)
              skip == marketing.enabled /\ isInMarketingWindowAt(config, now)
          IN /\ windowCheck' = [done |-> TRUE, at |-> now, skipped |-> skip]
             /\ IF skip
                THEN /\ skipLog' = Append(skipLog, [reason |-> "marketing_window",
                                                    at |-> now])
                     /\ pc' = "permitReleased"
                     /\ UNCHANGED <<attempt, xGenCalls>>
                ELSE /\ attempt' = 1
                     /\ xGenCalls' = xGenCalls + 1
                     /\ pc' = "xNotification"
                     /\ UNCHANGED skipLog
  /\ UNCHANGED <<config, xAccountIds, now, elapsed, xText, xPosts, storePushes>>

\* an attempt loop that returns without a secondary text after its last round
NextAttempt_returnsNoText ==
  IF attempt < XNotificationAttempts
  THEN /\ attempt' = attempt + 1
       /\ xGenCalls' = xGenCalls + 1
       /\ pc' = "xNotification"
  ELSE /\ pc' = "permitReleased"
       /\ UNCHANGED <<attempt, xGenCalls>>

\* `continue` / `catch (e) { lastErr = e }` of the attempt loop, and the throw
\* after its last round
NextAttempt ==
  IF attempt < XNotificationAttempts
  THEN /\ attempt' = attempt + 1
       /\ xGenCalls' = xGenCalls + 1
       /\ pc' = "xNotification"
  ELSE /\ pc' = "failed"
       /\ UNCHANGED <<attempt, xGenCalls>>

\* writeXNotificationFromLoreUnlocked settles: it throws, or returns a text
\* that the worker tests with isValidXNotificationText(text)
XNotificationSettles(ok, text) ==
  /\ pc = "xNotification"
  /\ IF ok /\ isValidXNotificationText(text, <<>>)
     THEN /\ xText' = <<text>>
          /\ pc' = "permitReleased"
          /\ UNCHANGED <<attempt, xGenCalls>>
     ELSE /\ NextAttempt
          /\ UNCHANGED xText
  /\ UNCHANGED <<config, xAccountIds, now, elapsed, skipLog, windowCheck, xPosts,
                 storePushes>>

\* `await withNearAiPermit(...)` resumes the cycle: STEP 2
PermitReturns ==
  /\ pc = "permitReleased"
  /\ IF config.publishLoreToNearSocial
     THEN /\ pc' = "publishNear"
          /\ UNCHANGED xPosts
     ELSE PublishXStep(xText)
  /\ UNCHANGED <<config, xAccountIds, now, elapsed, attempt, xText, skipLog,
                 xGenCalls, windowCheck, storePushes>>

\* publishLoreThread settles; on success the lore is pushed to
\* publishedLoreStore, and the cycle goes on to the X step
PublishNearSettles(ok) ==
  /\ pc = "publishNear"
  /\ IF ok
     THEN /\ storePushes' = Append(storePushes, [xCallsBefore |-> Len(xPosts)])
          /\ PublishXStep(xText)
     ELSE /\ pc' = "failed"
          /\ UNCHANGED <<xPosts, storePushes>>
  /\ UNCHANGED <<config, xAccountIds, now, elapsed, attempt, xText, skipLog,
                 xGenCalls, windowCheck>>

\* publishLoreToXWithText settles
PublishXSettles(ok) ==
  /\ pc = "publishX"
  /\ pc' = IF ok THEN "done" ELSE "failed"
  /\ UNCHANGED <<config, xAccountIds, now, elapsed, attempt, xText, skipLog,
                 xGenCalls, windowCheck, xPosts, storePushes>>

\* a minute passes while the cycle waits at an await
ClockAdvances ==
  /\ pc \notin {"done", "failed"}
  /\ elapsed < MaxElapsed
  /\ now' = (now + 1) % MinutesPerDay
  /\ elapsed' = elapsed + 1
  /\ UNCHANGED <<config, xAccountIds, pc, attempt, xText, skipLog, xGenCalls,
                 windowCheck, xPosts, storePushes>>

\* ------------------------------------------------------ PublishedLoreStore
\* Array.prototype.reverse()
RECURSIVE Reverse(_)
Reverse(s) == IF s = <<>> THEN <<>> ELSE Reverse(Tail(s)) \o <<Head(s)>>

\* Array.prototype.slice(0, n), n >= 0
SliceTo(s, n) == SubSeq(s, 1, Min(n, Len(s)))

\* new PublishedLoreStore(capacity)
StoreNew(c) == RingNew(c)

\* PublishedLoreStore.push(entry)
StorePush(s, entry) == RingPush(s, entry).ring

\* listNewestFirst() that forgets to reverse
listNewestFirst_noReverse(s) == RingToArray(s)

\* PublishedLoreStore.listNewestFirst()
listNewestFirst(s) == Reverse(RingToArray(s))

\* PublishedLoreStore.size() and maxSize()
StoreSize(s) == s.size
StoreMaxSize(s) == s.capacity

\* the chronicle memory LoreWorker.tick hands to buildLorePayload
memOldestFirst(s) == Reverse(SliceTo(listNewestFirst(s), StoreMaxSize(s)))

\* a cycle published its lore to NEAR Social: the worker pushes
\* {createdAt: Date.now(), batchId, ...}
StorePushes ==
  /\ storePushed < MaxStorePushes
  /\ LET entry == [createdAt |-> storeClock, batchId |-> storePushed + 1]
     IN /\ store' = StorePush(store, entry)
        /\ lastStorePush' = [called |-> TRUE, entry |-> <<entry>>,
                             before |-> RingToArray(store),
                             after |-> RingToArray(StorePush(store, entry))]
  /\ storePushed' = storePushed + 1
  /\ UNCHANGED storeClock

\* time passes between two cycles
StoreClockAdvances ==
  /\ storeClock < MaxStoreClock
  /\ storeClock' = storeClock + 1
  /\ UNCHANGED <<store, storePushed, lastStorePush>>

StoreInit ==
  /\ store = StoreNew(PublishedLoreCapacity)
  /\ storeClock = 0
  /\ storePushed = 0
  /\ lastStorePush = [called |-> FALSE, entry |-> <<>>, before |-> <<>>,
                      after |-> <<>>]

StoreParked == StoreInit

\* ---------------------------------------------------- marketing post texts
\* A marketing text is a sequence of lines and a line a non-empty sequence of
\* tokens; "*" stands for the separator U+2726, and words are in lower case.
Separator == "*"
UrlTokens == {"http://x"}
ContractTokens == {"alice.near"}
HashtagTokens == {"#NEARCON26", "#other"}
ShortWords == {"the"}
AnchorWords == {"forest", "oracle", "chronicle", "lore", "canopy", "embers", "moss"}

\* the tokens of a text, line after line
RECURSIVE Flatten(_)
Flatten(text) == IF text = <<>> THEN <<>> ELSE Head(text) \o Flatten(Tail(text))

\* normalizeText(s), token by token: URLs go, punctuation turns into blanks
NormalizedWords(tok) ==
  IF tok = Separator \/ tok \in UrlTokens THEN <<>>
  ELSE IF tok = "#NEARCON26" THEN <<"nearcon26">>
  ELSE IF tok = "#other" THEN <<"other">>
  ELSE IF tok = "alice.near" THEN <<"alice", "near">>
  ELSE <<tok>>

RECURSIVE NormalizeTokens(_)
NormalizeTokens(toks) ==
  IF toks = <<>> THEN <<>>
  ELSE NormalizedWords(Head(toks)) \o NormalizeTokens(Tail(toks))

\* normalizeText(s).split(' ').filter(Boolean)
normalizeText(text) == NormalizeTokens(Flatten(text))

IsLongWord(w) == w \notin ShortWords

\* firstLongWords(s, n)
firstLongWords(text, n) ==
  SliceTo(SelectSeq(normalizeText(text), IsLongWord), n)

\* tokenSet(s), without stop words
tokenSet(text) ==
  LET ws == normalizeText(text)
  IN {ws[i] : i \in {j \in 1..Len(ws) : IsLongWord(ws[j])}}

\* jaccard(a, b) >= 0.62
jaccardAtLeast62(a, b) ==
  IF a = {} /\ b = {} THEN TRUE
  ELSE IF a = {} \/ b = {} THEN FALSE
  ELSE LET inter == Cardinality(a \cap b)
           uni == Cardinality(a) + Cardinality(b) - inter
       IN uni > 0 /\ 100 * inter >= 62 * uni

\* the phrase occurs in the text, its words separated by white space
HasPhrase(text, phrase) ==
  LET toks == Flatten(text)
  IN \E i \in 1..Len(toks) :
       /\ i + Len(phrase) - 1 <= Len(toks)
       /\ \A k \in 1..Len(phrase) : toks[i + k - 1] = phrase[k]

\* isTooSimilarToRecent(candidate, recentTexts): ok and the reason
isTooSimilarToRecent(candidate, recentTexts) ==
  LET c1 == firstLongWords(candidate, 1)
      c2 == firstLongWords(candidate, 2)
      c4 == firstLongWords(candidate, 4)
      Same(n, c) == \E i \in 1..Len(recentTexts) :
                      c # <<>> /\ firstLongWords(recentTexts[i], n) = c
  IN IF candidate = <<>> THEN [ok |-> FALSE, reason |-> "empty"]
     ELSE IF Same(1, c1) THEN [ok |-> FALSE, reason |-> "same_first_word"]
     ELSE IF Same(2, c2) THEN [ok |-> FALSE, reason |-> "same_first_two_words"]
     ELSE IF Same(4, c4) THEN [ok |-> FALSE, reason |-> "same_first_four_words"]
     ELSE IF \E i \in 1..Len(recentTexts) :
               jaccardAtLeast62(tokenSet(candidate), tokenSet(recentTexts[i]))
     THEN [ok |-> FALSE, reason |-> "jaccard"]
     ELSE IF HasPhrase(candidate, <<"spitting", "verses">>)
     THEN [ok |-> FALSE, reason |-> "catchphrase_spitting_verses"]
     ELSE [ok |-> TRUE, reason |-> ""]

\* a line without its hashtags
StripHashtags(line) == SelectSeq(line, LAMBDA t : t \notin HashtagTokens)

RECURSIVE StripAllHashtags(_)
StripAllHashtags(text) ==
  IF text = <<>> THEN <<>>
  ELSE LET l == StripHashtags(Head(text))
       IN (IF l = <<>> THEN <<>> ELSE <<l>>) \o StripAllHashtags(Tail(text))

\* normalizeHashtagsOnly(text): every hashtag removed, #NEARCON26 put back at
\* the very end when the text had it
normalizeHashtagsOnly(text) ==
  LET hadNearcon == \E i \in 1..Len(Flatten(text)) : Flatten(text)[i] = "#NEARCON26"
      t == StripAllHashtags(text)
  IN IF ~hadNearcon THEN t
     ELSE IF t = <<>> THEN <<<<"#NEARCON26">>>>
     ELSE [t EXCEPT ![Len(t)] = Append(t[Len(t)], "#NEARCON26")]

\* normalizeMarketingText(stripCodeFences(raw))
normalizeMarketingText(raw) ==
  IF raw = <<>> THEN <<>> ELSE normalizeHashtagsOnly(raw)

\* MarketingPoster.validateMarketingText(text): ok and the reason
validateMarketingText(t) ==
  LET toks == Flatten(t)
      tags == SelectSeq(toks, LAMBDA x : x \in HashtagTokens)
      No(r) == [ok |-> FALSE, reason |-> r]
  IN IF t = <<>> THEN No("empty")
     ELSE IF \E i \in 1..Len(toks) : toks[i] \in UrlTokens
     THEN No("contains_url")
     ELSE IF \E i \in 1..Len(toks) : toks[i] \in ContractTokens
     THEN No("contains_contract_identifier")
     ELSE IF Len(t) < 1 \/ Len(t) > 2 THEN No("line_count")
     ELSE IF ~(\A i \in 1..Len(t) : t[i][1] = Separator /\ Len(t[i]) >= 2)
     THEN No("bad_separator_lines")
     ELSE IF ~(tags = <<>> \/ tags = <<"#NEARCON26">>)
     THEN No("invalid_hashtag")
     ELSE IF tags # <<>> /\ toks[Len(toks)] # "#NEARCON26"
     THEN No("hashtag_not_at_end")
     ELSE IF HasPhrase(t, <<"check", "this", "profile">>)
               \/ HasPhrase(t, <<"check", "the", "profile">>)
     THEN No("explicit_check_profile")
     ELSE IF HasPhrase(t, <<"visit", "this", "profile">>)
               \/ HasPhrase(t, <<"visit", "our", "profile">>)
     THEN No("explicit_visit_profile")
     ELSE IF ~(\E i \in 1..Len(normalizeText(t)) : normalizeText(t)[i] \in AnchorWords)
     THEN No("missing_dark_forest_anchor")
     ELSE [ok |-> TRUE, reason |-> ""]

\* enforceHardCap(text): trim; the cap of 25000 characters is out of reach of
\* a completion of 220 tokens
enforceHardCap(t) == t

\* the completions the generation backend may return
MarketingRaws ==
  {<<>>,
   <<<<"*", "forest", "cards", "rise">>>>,
   <<<<"*", "forest", "cards", "rise">>, <<"*", "the", "moss", "waits">>>>,
   <<<<"*", "oracle", "speaks", "#NEARCON26", "tonight">>>>,
   <<<<"forest", "cards">>>>,
   <<<<"*", "cards", "rise">>>>,
   <<<<"*", "forest", "http://x">>>>}

\* -------------------------------------------------------- MarketingPoster
SecondsPerDay == MinutesPerDay * 60

\* getLocalYMD(date, tz): the local day, counted from day 0
getLocalYMD(t) == t \div SecondsPerDay

\* the local seconds since midnight
LocalSecond(t) == t % SecondsPerDay

Max(a, b) == IF a >= b THEN a ELSE b

\* clampInt(n, min, max), n an integer
clampInt(n, min, max) == Max(min, Min(max, n))

\* pickJitteredPublishMinutes(baseMinutes, jitterMinutes); k is the integer
\* Math.floor(Math.random() * (max - min + 1)), one of 0 .. max - min
pickJitteredPublishMinutes(baseMinutes, jitterMinutes, k) ==
  IF jitterMinutes <= 0 THEN baseMinutes
  ELSE LET min == baseMinutes - jitterMinutes
           picked == min + k
       IN Max(0, Min(MinutesPerDay - 1, picked))

\* the values Math.floor(Math.random() * (max - min + 1)) takes
RandomPicks(jitterMinutes) ==
  IF jitterMinutes <= 0 THEN {0} ELSE 0..(2 * jitterMinutes)

\* toTodayPublishDelayMs(now, publishMinuteLocal, tz), now given by its local
\* seconds since midnight
toTodayPublishDelayMs(nowSec, publishMinuteLocal) ==
  LET nowMinute == nowSec \div 60
      nowMsIntoMinute == (nowSec % 60) * 1000
      deltaMinutes == publishMinuteLocal - nowMinute
      deltaMs == deltaMinutes * 60000 - nowMsIntoMinute
      maxMsRemainingInDay ==
        (24 * 60 - nowMinute - 1) * 60000 + (60000 - nowMsIntoMinute)
  IN IF deltaMs <= 0 THEN deltaMs ELSE Min(deltaMs, maxMsRemainingInDay)

\* new MarketingPoster()
PosterNew ==
  [task |-> FALSE, pendingTimer |-> <<>>, inFlight |-> FALSE,
   lastError |-> <<>>, lastPlannedYmd |-> <<>>, lastPlannedMinute |-> <<>>,
   stateCache |-> [lastPostedYmd |-> <<>>, recentTexts |-> <<>>]]

\* no generateAndPost call is past its guards
RunIdle ==
  [pc |-> "idle", ymd |-> 0, force |-> FALSE, reason |-> "", attempt |-> 0,
   rejectHint |-> "", last |-> <<>>, text |-> <<>>, postDay |-> 0]

\* planTodayOrTomorrow() that arms the new timer without clearing the old one
planTodayOrTomorrow_noClear(p, armed, id, c, at, k) ==
  LET policy == getMarketingPolicy(c)
      ymd == getLocalYMD(at)
      publishMinute ==
        pickJitteredPublishMinutes(policy.baseMinutes, policy.jitterMinutes, k)
      delayMs == toTodayPublishDelayMs(LocalSecond(at), publishMinute)
      late == delayMs <= 0
      wait == IF late THEN clampInt(30000, 5000, 120000) ELSE delayMs
      timer == [id |-> id, due |-> at + wait \div 1000,
                reason |-> IF late THEN "late_boot" ELSE "scheduled"]
  IN IF p.stateCache.lastPostedYmd = <<ymd>>
     THEN [poster |-> p, timers |-> armed, planned |-> FALSE, at |-> at,
           minute |-> 0, waitMs |-> 0, reason |-> "already_posted"]
     ELSE [poster |-> [p EXCEPT !.lastPlannedYmd = <<ymd>>,
                                !.lastPlannedMinute = <<publishMinute>>,
                                !.pendingTimer = <<id>>],
           timers |-> armed \cup {timer}, planned |-> TRUE, at |-> at,
           minute |-> publishMinute, waitMs |-> wait, reason |-> timer.reason]

\* MarketingPoster.planTodayOrTomorrow(): the poster and the timers armed
\* after it, and what it planned
planTodayOrTomorrow(p, armed, id, c, at, k) ==
  LET policy == getMarketingPolicy(c)
      ymd == getLocalYMD(at)
      publishMinute ==
        pickJitteredPublishMinutes(policy.baseMinutes, policy.jitterMinutes, k)
      cleared == {t \in armed : <<t.id>> # p.pendingTimer}
      delayMs == toTodayPublishDelayMs(LocalSecond(at), publishMinute)
      late == delayMs <= 0
      wait == IF late THEN clampInt(30000, 5000, 120000) ELSE delayMs
      timer == [id |-> id, due |-> at + wait \div 1000,
                reason |-> IF late THEN "late_boot" ELSE "scheduled"]
  IN IF p.stateCache.lastPostedYmd = <<ymd>>
     THEN [poster |-> p, timers |-> armed, planned |-> FALSE, at |-> at,
           minute |-> 0, waitMs |-> 0, reason |-> "already_posted"]
     ELSE [poster |-> [p EXCEPT !.lastPlannedYmd = <<ymd>>,
                                !.lastPlannedMinute = <<publishMinute>>,
                                !.pendingTimer = <<id>>],
           timers |-> cleared \cup {timer}, planned |-> TRUE, at |-> at,
           minute |-> publishMinute, waitMs |-> wait, reason |-> timer.reason]

\* a planTodayOrTomorrow call takes effect
Planned(plan) ==
  /\ poster' = plan.poster
  /\ mkTimers' = plan.timers
  /\ mkSetTimeouts' = IF plan.planned THEN mkSetTimeouts + 1 ELSE mkSetTimeouts
  /\ lastPlan' = [called |-> TRUE, at |-> plan.at, planned |-> plan.planned,
                  minute |-> plan.minute, waitMs |-> plan.waitMs,
                  reason |-> plan.reason, armedBefore |-> mkTimers,
                  armedAfter |-> plan.timers]

\* generateAndPost without its `if (this.inFlight) return`
generateAndPostHead_noInFlightCheck(p, c, at, force, reason) ==
  LET policy == getMarketingPolicy(c)
      ymd == getLocalYMD(at)
  IN IF ~policy.enabled THEN [poster |-> p, run |-> RunIdle, started |-> FALSE]
     ELSE IF ~force /\ p.stateCache.lastPostedYmd = <<ymd>>
     THEN [poster |-> p, run |-> RunIdle, started |-> FALSE]
     ELSE [poster |-> [p EXCEPT !.inFlight = TRUE, !.lastError = <<>>],
           run |-> [RunIdle EXCEPT !.pc = "acquire", !.ymd = ymd,
                                   !.force = force, !.reason = reason,
                                   !.rejectHint = "(none)"],
           started |-> TRUE]

\* generateAndPost(opts) up to its first await: the guards, then inFlight is
\* set and withNearAiPermit('marketing_post', ...) is called
generateAndPostHead(p, c, at, force, reason) ==
  LET policy == getMarketingPolicy(c)
      ymd == getLocalYMD(at)
  IN IF ~policy.enabled THEN [poster |-> p, run |-> RunIdle, started |-> FALSE]
     ELSE IF ~force /\ p.stateCache.lastPostedYmd = <<ymd>>
     THEN [poster |-> p, run |-> RunIdle, started |-> FALSE]
     ELSE IF p.inFlight THEN [poster |-> p, run |-> RunIdle, started |-> FALSE]
     ELSE [poster |-> [p EXCEPT !.inFlight = TRUE, !.lastError = <<>>],
           run |-> [RunIdle EXCEPT !.pc = "acquire", !.ymd = ymd,
                                   !.force = force, !.reason = reason,
                                   !.rejectHint = "(none)"],
           started |-> TRUE]

\* a generateAndPost call takes effect; a call that returns at a guard leaves
\* the run in flight, if any, alone
Triggered(head) ==
  /\ poster' = head.poster
  /\ IF head.started
     THEN /\ mkRun' = head.run
          /\ mkHolds' = 0
          /\ mkDrafts' = <<>>
     ELSE UNCHANGED <<mkRun, mkHolds, mkDrafts>>

\* MarketingPoster.start()
MarketingStart ==
  /\ ~mkBooted
  /\ mkBooted' = TRUE
  /\ LET fresh == [poster EXCEPT !.stateCache = PosterNew.stateCache]
     IN IF ~getMarketingPolicy(mkConfig).enabled
        THEN /\ poster' = fresh
             /\ UNCHANGED <<mkTimers, mkSetTimeouts, lastPlan>>
        ELSE \E k \in RandomPicks(getMarketingPolicy(mkConfig).jitterMinutes) :
               LET plan == planTodayOrTomorrow(fresh, mkTimers, mkSetTimeouts + 1,
                                               mkConfig, mkNow, k)
               IN Planned([plan EXCEPT !.poster.task = TRUE])
  /\ UNCHANGED <<mkConfig, mkNow, mkRun, mkHolds, mkDrafts, mkManual, mkPosts,
                 lastRun, autoFires, mkTerminated>>

\* local midnight passes; the cron task, if scheduled, re-plans
MidnightPasses ==
  /\ getLocalYMD(mkNow) < MaxMarketingDays
  /\ LET midnight == (getLocalYMD(mkNow) + 1) * SecondsPerDay
     IN /\ \A t \in mkTimers : t.due >= midnight
        /\ mkNow' = midnight
        /\ IF poster.task
           THEN \E k \in RandomPicks(getMarketingPolicy(mkConfig).jitterMinutes) :
                  Planned(planTodayOrTomorrow(poster, mkTimers, mkSetTimeouts + 1,
                                              mkConfig, midnight, k))
           ELSE UNCHANGED <<poster, mkTimers, mkSetTimeouts, lastPlan>>
  /\ UNCHANGED <<mkConfig, mkBooted, mkRun, mkHolds, mkDrafts, mkManual, mkPosts,
                 lastRun, autoFires, mkTerminated>>

\* the instants of day 0 the process is started at: in the morning, right
\* after 20:00, and 25 seconds before midnight
BootPoints == {36000, 72010, 86375}

\* the instants of a day the clock is followed to, beside the timers' dues
DayPoints == {86375}

\* time passes, up to the next timer due at most
TimePasses(to) ==
  /\ to > mkNow
  /\ getLocalYMD(to) = getLocalYMD(mkNow)
  /\ \A t \in mkTimers : t.due >= to
  /\ mkNow' = to
  /\ UNCHANGED <<mkConfig, mkBooted, poster, mkTimers, mkSetTimeouts, mkRun,
                 mkHolds, mkDrafts, mkManual, mkPosts, lastPlan, lastRun,
                 autoFires, mkTerminated>>

\* a timer armed by planTodayOrTomorrow fires:
\* `void this.generateAndPost({ force: false, reason })`
MarketingTimerFires(t) ==
  /\ t \in mkTimers
  /\ t.due = mkNow
  /\ mkTimers' = mkTimers \ {t}
  /\ autoFires' = Append(autoFires, [ymd |-> getLocalYMD(mkNow), reason |-> t.reason,
                                     planned |-> lastPlan.at,
                                     inFlight |-> poster.inFlight])
  /\ Triggered(generateAndPostHead(poster, mkConfig, mkNow, FALSE, t.reason))
  /\ UNCHANGED <<mkConfig, mkNow, mkBooted, mkSetTimeouts, mkManual, mkPosts,
                 lastPlan, lastRun, mkTerminated>>

\* POST /scheduler/marketing/post-now: marketingPoster.postNow({ force })
PostNow(force) ==
  /\ mkManual < MaxManualTriggers
  /\ mkManual' = mkManual + 1
  /\ Triggered(generateAndPostHead(poster, mkConfig, mkNow, force, "manual"))
  /\ UNCHANGED <<mkConfig, mkNow, mkBooted, mkTimers, mkSetTimeouts, mkPosts,
                 lastPlan, lastRun, autoFires, mkTerminated>>

\* the permit is granted and generateMarketingTextWithRetries issues the
\* first completion
MarketingPermitGranted ==
  /\ mkRun.pc = "acquire"
  /\ mkRun' = [mkRun EXCEPT !.pc = "generate", !.attempt = 1]
  /\ mkHolds' = mkHolds + 1
  /\ UNCHANGED <<mkConfig, mkNow, mkBooted, poster, mkTimers, mkSetTimeouts,
                 mkDrafts, mkManual, mkPosts, lastPlan, lastRun, autoFires,
                 mkTerminated>>

\* process.on('unhandledRejection', ...) is registered at start-up
unhandledRejectionListener == TRUE

\* catch and finally of generateAndPost that leave inFlight set
CatchFinally_keepInFlight(p, err) == [p EXCEPT !.lastError = <<err>>]

\* catch and finally of generateAndPost
CatchFinally(p, err) == [p EXCEPT !.lastError = <<err>>, !.inFlight = FALSE]

\* what a run leaves behind
RunEnded(failed, err, handed, drafts, posterAfter, postsAfter) ==
  [ended |-> TRUE, failed |-> failed, err |-> err, reason |-> mkRun.reason,
   drafts |-> drafts, holds |-> mkHolds, handed |-> handed,
   cacheBefore |-> poster.stateCache, posterAfter |-> posterAfter,
   posted |-> Len(postsAfter) - Len(mkPosts)]

\* the run throws: catch, finally, and the rejection of its promise, which
\* the route catches and a timer callback leaves unhandled
RunFails(err, handed, drafts) ==
  /\ poster' = CatchFinally(poster, err)
  /\ mkRun' = RunIdle
  /\ mkTerminated' = (mkTerminated
                        \/ (mkRun.reason # "manual" /\ ~unhandledRejectionListener))
  /\ lastRun' = RunEnded(TRUE, err, handed, drafts, CatchFinally(poster, err),
                         mkPosts)
  /\ UNCHANGED <<mkPosts, mkTimers>>

\* one round of the attempt loop that forgets the rejection reason
AfterDraft_noHint(run, text, v) ==
  IF v.ok THEN [run EXCEPT !.pc = "return", !.text = text, !.last = text]
  ELSE IF run.attempt < MarketingMaxAttempts
  THEN [run EXCEPT !.attempt = run.attempt + 1, !.last = text]
  ELSE [run EXCEPT !.pc = "return", !.text = text, !.last = text]

\* one round of the attempt loop of generateMarketingTextWithRetries, after
\* the draft was validated: return it, go round again with the reason as
\* the hint, or return the last draft
AfterDraft(run, text, v) ==
  IF v.ok THEN [run EXCEPT !.pc = "return", !.text = text, !.last = text]
  ELSE IF run.attempt < MarketingMaxAttempts
  THEN [run EXCEPT !.attempt = run.attempt + 1, !.rejectHint = v.reason,
                   !.last = text]
  ELSE [run EXCEPT !.pc = "return", !.text = text, !.last = text]

\* a completion settles: it throws, or its text is normalized and validated;
\* when the loop returns, the permit is released and the draft is capped,
\* tested for emptiness and handed to postTweet
MarketingGenerationSettles(ok, raw) ==
  /\ mkRun.pc = "generate"
  /\ IF ~ok
     THEN /\ RunFails("generation_failed", <<>>, mkDrafts)
          /\ UNCHANGED mkDrafts
     ELSE LET text == normalizeMarketingText(raw)
              v == validateMarketingText(text)
              next == AfterDraft(mkRun, text, v)
              capped == enforceHardCap(next.text)
              drafts == Append(mkDrafts,
                               [attempt |-> mkRun.attempt, hint |-> mkRun.rejectHint,
                                text |-> text, ok |-> v.ok, reason |-> v.reason,
                                hold |-> mkHolds])
          IN /\ mkDrafts' = drafts
             /\ IF next.pc # "return"
                THEN /\ mkRun' = next
                     /\ UNCHANGED <<poster, mkPosts, mkTimers, lastRun, mkTerminated>>
                ELSE IF capped = <<>>
                THEN RunFails("marketing_empty_text", <<>>, drafts)
                ELSE /\ mkRun' = [next EXCEPT !.pc = "post", !.text = capped,
                                              !.postDay = getLocalYMD(mkNow)]
                     /\ UNCHANGED <<poster, mkPosts, mkTimers, lastRun, mkTerminated>>
  /\ UNCHANGED <<mkConfig, mkNow, mkBooted, mkSetTimeouts, mkHolds, mkManual,
                 lastPlan, autoFires>>

\* postTweet settles: on success the post is remembered under the day the
\* run started on
MarketingPostSettles(ok) ==
  /\ mkRun.pc = "post"
  /\ IF ok
     THEN /\ mkPosts' = Append(mkPosts,
                               [day |-> mkRun.postDay, ymd |-> mkRun.ymd,
                                force |-> mkRun.force, reason |-> mkRun.reason,
                                text |-> mkRun.text,
                                recentBefore |-> poster.stateCache.recentTexts])
          /\ poster' = [poster EXCEPT
               !.stateCache = [lastPostedYmd |-> <<mkRun.ymd>>,
                               recentTexts |->
                                 SliceTo(<<mkRun.text>> \o poster.stateCache.recentTexts,
                                         MarketingRecentTextsMax)],
               !.inFlight = FALSE]
          /\ mkRun' = RunIdle
          /\ lastRun' = RunEnded(FALSE, "", <<mkRun.text>>, mkDrafts, poster', mkPosts')
          /\ UNCHANGED <<mkTimers, mkTerminated>>
     ELSE RunFails("x_publish_failed", <<mkRun.text>>, mkDrafts)
  /\ UNCHANGED <<mkConfig, mkNow, mkBooted, mkSetTimeouts, mkHolds, mkDrafts,
                 mkManual, lastPlan, autoFires>>

\* the configurations of the scheduler tried: 20:00 sharp, 23:59 and 00:00
\* with a jitter of a minute that the day's ends clamp, and a negative jitter
PosterConfigs ==
  {[marketingEnabled |-> e, marketingTime |-> tj[1],
    marketingJitterMinutes |-> tj[2]] :
     e \in BOOLEAN, tj \in {<<1200, 0>>, <<1439, 1>>, <<0, 1>>, <<1200, -1>>}}

MarketingQuiet ==
  /\ mkBooted = FALSE
  /\ poster = PosterNew
  /\ mkTimers = {}
  /\ mkSetTimeouts = 0
  /\ mkRun = RunIdle
  /\ mkHolds = 0
  /\ mkDrafts = <<>>
  /\ mkManual = 0
  /\ mkPosts = <<>>
  /\ lastPlan = [called |-> FALSE, at |-> 0, planned |-> FALSE, minute |-> 0,
                 waitMs |-> 0, reason |-> "", armedBefore |-> {}, armedAfter |-> {}]
  /\ lastRun = [ended |-> FALSE]
  /\ autoFires = <<>>
  /\ mkTerminated = FALSE

\* the process was started at one of these instants of day 0
MarketingInit ==
  /\ mkConfig \in PosterConfigs
  /\ mkNow \in BootPoints
  /\ MarketingQuiet

\* the scheduler enabled in the morning of day 0, for the runs triggered by
\* hand
DraftsInit ==
  /\ mkConfig = [marketingEnabled |-> TRUE, marketingTime |-> 1200,
                 marketingJitterMinutes |-> 0]
  /\ mkNow = 36000
  /\ MarketingQuiet

MarketingParked ==
  /\ mkConfig = [marketingEnabled |-> FALSE, marketingTime |-> 1200,
                 marketingJitterMinutes |-> 0]
  /\ mkNow = 0
  /\ MarketingQuiet

\* ------------------------------------------- publishLoreToXWithText, postTweet
\* publishLoreToXWithText(markdown, batchId, text, imagePrompt) as the worker
\* calls it for a batch whose secondary text was accepted, down to the POST
\* requests of postTweet and postTweetWithMedia.

\* withRetry(doPost, 3, 500): the attempts of one post call
XRetryAttempts == 3

\* imagePrompt?.trim() is empty: no prompt, or white space
PromptMissing(imagePrompt) == imagePrompt = <<>> \/ imagePrompt = <<" ">>

\* no publishLoreToXWithText call was made
XpIdle ==
  [pc |-> "idle", try |-> 0, image |-> "none", upload |-> "none",
   mediaPost |-> "none", textPost |-> "none", error |-> <<>>,
   cycle |-> "running"]

\* postTweet(text) up to its first await: without credentials it resolves
\* with {} at once, else the first request is sent
postTweetHead(s, configured, error) ==
  IF ~configured
  THEN [s EXCEPT !.pc = "returned", !.textPost = "noop", !.error = error,
                 !.cycle = "published"]
  ELSE [s EXCEPT !.pc = "postText", !.try = 1, !.error = error]

\* postTweetWithMedia(text, [mediaId]) up to its first await
postTweetWithMediaHead(s, configured) ==
  IF ~configured
  THEN [s EXCEPT !.pc = "returned", !.mediaPost = "noop", !.cycle = "published"]
  ELSE [s EXCEPT !.pc = "postMedia", !.try = 1]

\* a catch block that gives up on the post
CatchMediaFailure_rethrow(s, configured, err) ==
  [s EXCEPT !.pc = "thrown", !.error = <<err>>, !.cycle = "failed"]

\* the catch block of publishLoreToXWithText: the text-only post
CatchMediaFailure(s, configured, err) == postTweetHead(s, configured, <<err>>)

\* the worker calls publishLoreToXWithText
XPublishCalled ==
  /\ xp.pc = "idle"
  /\ xp' = IF ~xpConfig.xEnableImages
           THEN postTweetHead(xp, xpConfig.xConfigured, <<>>)
           ELSE IF PromptMissing(xpArgs.imagePrompt)
           THEN CatchMediaFailure(xp, xpConfig.xConfigured,
                                  "x_campaign_image_prompt_missing")
           ELSE [xp EXCEPT !.pc = "image"]
  /\ UNCHANGED <<xpConfig, xpArgs, xpRequests, xpTweets>>

\* generateImageFromPrompt settles
ImageSettles(ok) ==
  /\ xp.pc = "image"
  /\ xp' = IF ok THEN [xp EXCEPT !.pc = "upload", !.image = "ok"]
           ELSE CatchMediaFailure([xp EXCEPT !.image = "failed"],
                                  xpConfig.xConfigured, "image_failed")
  /\ UNCHANGED <<xpConfig, xpArgs, xpRequests, xpTweets>>

\* uploadTweetImage settles
UploadSettles(ok) ==
  /\ xp.pc = "upload"
  /\ xp' = IF ok
           THEN postTweetWithMediaHead([xp EXCEPT !.upload = "ok"],
                                       xpConfig.xConfigured)
           ELSE CatchMediaFailure([xp EXCEPT !.upload = "failed"],
                                  xpConfig.xConfigured, "upload_failed")
  /\ UNCHANGED <<xpConfig, xpArgs, xpRequests, xpTweets>>

\* one doPost of withRetry settles: a tweet id, or an error and the next
\* attempt, or the last error thrown to the caller of the post
PostAttemptSettles(ok) ==
  /\ xp.pc \in {"postMedia", "postText"}
  /\ LET media == xp.pc = "postMedia"
     IN /\ xpRequests' = Append(xpRequests, [media |-> media, ok |-> ok])
        /\ IF ok
           THEN /\ xpTweets' = Append(xpTweets, [text |-> xpArgs.text,
                                                 media |-> media])
                /\ xp' = IF media
                         THEN [xp EXCEPT !.pc = "returned", !.mediaPost = "ok",
                                         !.cycle = "published"]
                         ELSE [xp EXCEPT !.pc = "returned", !.textPost = "ok",
                                         !.cycle = "published"]
           ELSE /\ xpTweets' = xpTweets
                /\ xp' = IF xp.try < XRetryAttempts
                         THEN [xp EXCEPT !.try = xp.try + 1]
                         ELSE IF media
                         THEN CatchMediaFailure([xp EXCEPT !.mediaPost = "failed"],
                                                xpConfig.xConfigured,
                                                "x_post_failed")
                         ELSE [xp EXCEPT !.pc = "thrown", !.textPost = "failed",
                                         !.cycle = "failed"]
  /\ UNCHANGED <<xpConfig, xpArgs>>

XPublishQuiet ==
  /\ xp = XpIdle
  /\ xpRequests = <<>>
  /\ xpTweets = <<>>

XPublishInit ==
  /\ xpConfig \in [xEnableImages : BOOLEAN, xConfigured : BOOLEAN]
  /\ xpArgs \in [text : {"lore one", "lore two"},
                 imagePrompt : {<<>>, <<" ">>, <<"forest at dusk">>}]
  /\ XPublishQuiet

XPublishParked ==
  /\ xpConfig = [xEnableImages |-> FALSE, xConfigured |-> FALSE]
  /\ xpArgs = [text |-> "lore one", imagePrompt |-> <<>>]
  /\ XPublishQuiet

\* ------------------------------------------ POST /events/round-ended (routes.ts)
\* `const dedupe = new DedupeStore(100)`
RouteDedupeCapacity == 100

\* `round:${snapshot.roundNumber}`
dedupeKey(roundNumber) == "round:" \o ToString(roundNumber)

\* a handler that processes every delivery
RouteAccepts_always(once) == TRUE

\* `if (!dedupe.markOnce(dedupeKey)) return res.status(200).json({ ok: true,
\* deduped: true })`: the delivery goes on to processing
RouteAccepts(once) == once

\* the handler of POST /events/round-ended for a payload that parses: a
\* repeat is answered 200 deduped, any other 202, with the processing queued
\* as a `.then` callback. A handler starts when no callback is left to run.
RoundEnded(roundNumber) ==
  /\ rtMicrotasks = <<>>
  /\ LET res == markOnce(rtDedupe, dedupeKey(roundNumber))
         accepted == RouteAccepts(res.ret)
     IN /\ rtDedupe' = res.store
        /\ rtMicrotasks' = IF accepted THEN Append(rtMicrotasks, roundNumber)
                           ELSE rtMicrotasks
        /\ rtLog' = Append(rtLog,
                           [round |-> roundNumber,
                            status |-> IF accepted THEN 202 ELSE 200,
                            deduped |-> ~accepted,
                            seq |-> Len(rtIngested)])
  /\ UNCHANGED rtIngested

\* a round number never delivered before is delivered
NewRoundDelivered ==
  /\ rtNext < MaxNewRounds
  /\ rtNext' = rtNext + 1
  /\ RoundEnded(rtNext + 1)
  /\ UNCHANGED rtRepeats

\* the round numbers delivered again: the newest, the one delivered
\* capacity - 1 new rounds before it, and the one before that
RepeatChoices ==
  {r \in {rtNext, rtNext - (RouteDedupeCapacity - 1), rtNext - RouteDedupeCapacity} :
     r >= 1}

\* the moments a round number is delivered again at: after the first new
\* round, and when the window is full, has dropped its first round and its
\* second
RepeatPoints ==
  {1, RouteDedupeCapacity, RouteDedupeCapacity + 1, RouteDedupeCapacity + 2}

\* a round number delivered before is delivered again
RoundRedelivered(roundNumber) ==
  /\ rtRepeats < MaxRepeats
  /\ rtNext \in RepeatPoints
  /\ roundNumber \in RepeatChoices
  /\ rtRepeats' = rtRepeats + 1
  /\ RoundEnded(roundNumber)
  /\ UNCHANGED rtNext

\* the `.then` callback runs: processRoundSnapshot(snapshot) builds the
\* digest and calls loreBatcher.ingest before its first await
ProcessRoundSnapshot ==
  /\ rtMicrotasks # <<>>
  /\ rtIngested' = Append(rtIngested, Head(rtMicrotasks))
  /\ rtMicrotasks' = Tail(rtMicrotasks)
  /\ UNCHANGED <<rtDedupe, rtLog, rtNext, rtRepeats>>

RouteInit ==
  /\ rtDedupe = DedupeNew(RouteDedupeCapacity)
  /\ rtMicrotasks = <<>>
  /\ rtIngested = <<>>
  /\ rtLog = <<>>
  /\ rtNext = 0
  /\ rtRepeats = 0

RouteParked == RouteInit

\* ------------------------- processRoundSnapshot and the order on the gate
\* the semaphore of getNearAiSemaphore(), with no call made yet
OrdNew ==
  [available |-> capacity, queue |-> <<>>, calls |-> <<>>, grants |-> <<>>,
   gen |-> <<>>]

\* withNearAiPermit(l, fn) up to `await sem.acquire()`: the call gets the next
\* ticket; acquire() resolves at once with a free permit and queues otherwise
Request(o, l, key) ==
  LET k == Len(o.calls) + 1
  IN IF o.available > 0
     THEN [o EXCEPT !.available = @ - 1,
                    !.calls = Append(@, [label |-> l, key |-> key,
                                         st |-> "resolved"]),
                    !.grants = Append(@, k)]
     ELSE [o EXCEPT !.queue = Append(@, k),
                    !.calls = Append(@, [label |-> l, key |-> key,
                                         st |-> "pending"])]

\* the release closure, called once by the finally of withNearAiPermit
Released(o) ==
  IF o.queue = <<>>
  THEN [o EXCEPT !.available = @ + 1]
  ELSE LET next == Head(o.queue)
       IN [o EXCEPT !.queue = Tail(@),
                    !.calls[next].st = "resolved",
                    !.grants = Append(@, next)]

\* the round a batch was completed by: its newest record
BatchKey(b) == b.rounds[Len(b.rounds)]

\* a processRoundSnapshot that ingests before it starts the round-result comment
SnapshotRequests_ingestFirst(o, n, generates, started, key) ==
  LET c1 == IF started THEN Request(o, "lore_cycle", key) ELSE o
  IN IF nearAiApiKey /\ generates THEN Request(c1, "round_result", n) ELSE c1

\* The acquire() calls of processRoundSnapshot(snapshot) for round n, all in one
\* synchronous block: `void produceRoundResultComment(...)` runs up to the
\* acquire of writeRoundResultComment (or returns before it: no key, no players,
\* a round already commented, nobody to comment on), then loreBatcher.ingest
\* runs, and the tick() its ready callback starts runs up to the acquire of the
\* lore cycle.
SnapshotRequests(o, n, generates, started, key) ==
  LET c1 == IF nearAiApiKey /\ generates THEN Request(o, "round_result", n) ELSE o
  IN IF started THEN Request(c1, "lore_cycle", key) ELSE c1

\* processRoundSnapshot(snapshot); generates: produceRoundResultComment reaches
\* withNearAiPermit for this snapshot
SnapshotProcessed(generates) ==
  /\ ingested < MaxOrderSnapshots
  /\ Ingest
  /\ LET started == Len(running') > Len(running)
     IN ord' = SnapshotRequests(ord, ingested + 1, generates, started,
                                IF started
                                THEN BatchKey(running'[Len(running')])
                                ELSE 0)

\* the await of acquire() resumes and the guarded function starts with its
\* first generation call
OrdFnStarts(k) ==
  /\ k \in 1..Len(ord.calls)
  /\ ord.calls[k].st = "resolved"
  /\ ord' = [ord EXCEPT
               !.calls[k].st = "running",
               !.gen = Append(@, [kind |-> IF ord.calls[k].label = "lore_cycle"
                                           THEN "lore"
                                           ELSE "round_result",
                                  key |-> ord.calls[k].key])]
  /\ UNCHANGED <<batcherVars, workerVars>>

\* the guarded function returns or throws and the permit is released; the lore
\* cycle has or has not generated the secondary text before
OrdFnEnds(k, how, withX) ==
  /\ k \in 1..Len(ord.calls)
  /\ ord.calls[k].st = "running"
  /\ withX => ord.calls[k].label = "lore_cycle"
  /\ LET done == [ord EXCEPT
                    !.calls[k].st = how,
                    !.gen = IF withX
                            THEN Append(@, [kind |-> "x_notification",
                                            key |-> ord.calls[k].key])
                            ELSE @]
     IN ord' = Released(done)
  /\ UNCHANGED <<batcherVars, workerVars>>

\* the withNearAiPermit call of the cycle of batch b
LoreCall(b) ==
  CHOOSE k \in 1..Len(ord.calls) :
    ord.calls[k].label = "lore_cycle" /\ ord.calls[k].key = BatchKey(b)

\* the rest of the cycle after its permit: the publish steps, or the catch
\* block when the guarded function threw, then the finally block, whose tick()
\* runs up to the acquire of the next cycle
OrdCycleEnds ==
  /\ running # <<>>
  /\ ord.calls[LoreCall(running[1])].st \in {"returned", "threw"}
  /\ CycleEnds(1, ord.calls[LoreCall(running[1])].st = "threw")
  /\ ord' = IF running' # <<>>
            THEN Request(ord, "lore_cycle", BatchKey(running'[1]))
            ELSE ord

OrderInit == ord = OrdNew

\* the batcher of the running service, with batches of one or two records
OrderBatcherInit ==
  /\ opts \in {[roundsCapacity |-> 1, batchSize |-> b, pendingCapacity |-> p] :
                 b \in 1..2, p \in 1..2}
  /\ rounds = RingNew(opts.roundsCapacity)
  /\ unbatchedQueue = <<>>
  /\ pendingBatches = RingNew(opts.pendingCapacity)
  /\ onBatchReady = TRUE
  /\ nearAiApiKey = TRUE
  /\ busy = FALSE
  /\ ingested = 0
  /\ formedLog = <<>>
  /\ lastIngest = [before |-> <<>>, batch |-> <<>>, after |-> <<>>]

OrderParked == OrderInit

\* ------------------------------- the marketing window for any window width
\* a % n of JavaScript: the remainder has the sign of the dividend
JsRemainder(a, n) == IF a >= 0 THEN a % n ELSE 0 - ((0 - a) % n)

\* getMarketingPolicy(): windowMinutes, half, windowStart and windowEnd for a
\* base minute and an integer config.marketingWindowMinutes
windowOf(base, widthSetting) ==
  LET windowMinutes == Max(0, widthSetting)
      half == windowMinutes \div 2
  IN [windowMinutes |-> windowMinutes,
      windowStartMinutes |-> JsRemainder(base - half + MinutesPerDay, MinutesPerDay),
      windowEndMinutes |-> JsRemainder(base + half, MinutesPerDay)]

\* isInMarketingWindowAt(date) for the local minute nowMin
isInWindowOf(base, widthSetting, nowMin) ==
  LET p == windowOf(base, widthSetting)
  IN isInCircularRange(nowMin, p.windowStartMinutes, p.windowEndMinutes)

\* the base minutes and the window settings tried: the day's ends, the
\* default, windows of a day and more, a negative setting
WindowBases == {0, 1, 30, 720, 1200, 1410, 1439}
WindowWidths == {-5, 0, 1, 2, 60, 61, 1438, 1439, 1440, 1441, 2882}
WindowJitters == {0, 15, 31}

WindowInit ==
  /\ winArgs \in [base : WindowBases, width : WindowWidths]
  /\ winResult = [called |-> "none", minute |-> 0, inside |-> FALSE]

\* isInMarketingWindowAt(date) is called at local minute m
WindowTested(m) ==
  /\ winResult.called = "none"
  /\ winResult' = [called |-> "isInMarketingWindowAt", minute |-> m,
                   inside |-> isInWindowOf(winArgs.base, winArgs.width, m)]
  /\ UNCHANGED winArgs

\* pickJitteredPublishMinutes picks the publish minute, which is then tested
MinutePicked(j, k) ==
  /\ winResult.called = "none"
  /\ k \in RandomPicks(j)
  /\ LET m == pickJitteredPublishMinutes(winArgs.base, j, k)
     IN winResult' = [called |-> "pickJitteredPublishMinutes", minute |-> m,
                      inside |-> isInWindowOf(winArgs.base, winArgs.width, m),
                      jitter |-> j]
  /\ UNCHANGED winArgs

WindowParked ==
  /\ winArgs = [base |-> 1200, width |-> marketingWindowMinutes]
  /\ winResult = [called |-> "none", minute |-> 0, inside |-> FALSE]

\* ---------------------------------------------------------- specifications
SemInit ==
  /\ available = capacity
  /\ queue = <<>>
  /\ timers = {}
  /\ promise = [k \in Tickets |-> "none"]
  /\ released = [k \in Tickets |-> FALSE]
  /\ grantLog = <<>>
  /\ acquires = 0
  /\ fnState = [k \in Tickets |-> "none"]
  /\ relCalls = [k \in Tickets |-> 0]

GateInit ==
  /\ label = [k \in Tickets |-> "none"]
  /\ inCall = [k \in Tickets |-> FALSE]
  /\ callsMade = [k \in Tickets |-> 0]
  /\ bootCheck = "pending"
  /\ fnEnd = [k \in Tickets |-> "none"]

RingInit ==
  /\ \E c \in 1..MaxRingCap :
       /\ rb = RingNew(c)
       /\ lastOp = [op |-> "none", arg |-> 0, before |-> RingNew(c),
                    dropped |-> <<>>, out |-> <<>>]
  /\ pushes = 0
  /\ onlyPushes = TRUE
  /\ refFifo = <<>>

DedupeInit ==
  /\ \E c \in 1..MaxDedupeCap : dd = DedupeNew(c)
  /\ refWindow = <<>>
  /\ lastMark = [called |-> FALSE, key |-> "", ret |-> FALSE, inWindow |-> FALSE]

BatcherInit ==
  /\ opts \in OptsChoices
  /\ rounds = RingNew(opts.roundsCapacity)
  /\ unbatchedQueue = <<>>
  /\ pendingBatches = RingNew(opts.pendingCapacity)
  /\ onBatchReady = FALSE
  /\ nearAiApiKey \in BOOLEAN
  /\ busy = FALSE
  /\ ingested = 0
  /\ formedLog = <<>>
  /\ lastIngest = [before |-> <<>>, batch |-> <<>>, after |-> <<>>]

\* `this.state = { busy: false }`
WorkerInit ==
  /\ running = <<>>
  /\ lastBatchId = <<>>
  /\ lastError = <<>>
  /\ drainLog = <<>>
  /\ cycleLog = <<>>
  /\ notifyLog = <<>>
  /\ lastCall = "none"
  /\ lastEnd = [called |-> FALSE, failed |-> FALSE, batch |-> <<>>,
                caught |-> <<>>, pendingBefore |-> <<>>, pendingAfter |-> <<>>,
                busyAfter |-> FALSE, runningAfter |-> <<>>, errorAfter |-> <<>>]

\* A drained batch enters the try block of tick(): the lore_cycle permit is
\* held and writeLoreUnlocked is in flight.
LoreCycleInit ==
  /\ config \in Configs
  /\ xAccountIds \in {<<>>, <<"alice.near", "bob.near">>}
  /\ now \in StartMinutes(config)
  /\ elapsed = 0
  /\ pc = "writeLore"
  /\ attempt = 0
  /\ xText = <<>>
  /\ skipLog = <<>>
  /\ xGenCalls = 0
  /\ windowCheck = [done |-> FALSE, at |-> 0, skipped |-> FALSE]
  /\ xPosts = <<>>
  /\ storePushes = <<>>

\* The components a specification does not drive: constructed, never called.
SemParked == SemInit
GateParked == GateInit
RingParked ==
  /\ rb = RingNew(1)
  /\ lastOp = [op |-> "none", arg |-> 0, before |-> RingNew(1),
               dropped |-> <<>>, out |-> <<>>]
  /\ pushes = 0
  /\ onlyPushes = TRUE
  /\ refFifo = <<>>
DedupeParked ==
  /\ dd = DedupeNew(1)
  /\ refWindow = <<>>
  /\ lastMark = [called |-> FALSE, key |-> "", ret |-> FALSE, inWindow |-> FALSE]
BatcherParked ==
  /\ opts = ProdOpts
  /\ rounds = RingNew(ProdOpts.roundsCapacity)
  /\ unbatchedQueue = <<>>
  /\ pendingBatches = RingNew(ProdOpts.pendingCapacity)
  /\ onBatchReady = FALSE
  /\ nearAiApiKey = TRUE
  /\ busy = FALSE
  /\ ingested = 0
  /\ formedLog = <<>>
  /\ lastIngest = [before |-> <<>>, batch |-> <<>>, after |-> <<>>]
  /\ WorkerInit

LoreCycleParked ==
  /\ config = [publishLoreToX |-> FALSE, publishLoreToNearSocial |-> FALSE,
               marketingEnabled |-> FALSE, marketingTime |-> 1200,
               marketingJitterMinutes |-> 15]
  /\ xAccountIds = <<>>
  /\ now = 0
  /\ elapsed = 0
  /\ pc = "done"
  /\ attempt = 0
  /\ xText = <<>>
  /\ skipLog = <<>>
  /\ xGenCalls = 0
  /\ windowCheck = [done |-> FALSE, at |-> 0, skipped |-> FALSE]
  /\ xPosts = <<>>
  /\ storePushes = <<>>

\* The Semaphore under any callers: withNearAiPermit calls with and without a
\* queue timeout, expiring timers, and repeated calls of a release capability.
notSem == <<gateVars, ringVars, dedupeVars, batcherVars, workerVars,
  loreCycleVars,
  storeVars,
  marketingVars,
  xPublishVars,
  routeVars,
  orderVars,
  windowVars>>

SemNext ==
  \/ \E timeoutMs \in TimeoutInputs : PermitCall(timeoutMs) /\ UNCHANGED notSem
  \/ \E k \in Tickets : PermitResume(k) /\ UNCHANGED notSem
  \/ \E k \in Tickets : PermitRejected(k) /\ UNCHANGED notSem
  \/ \E k \in Tickets : PermitFinally(k) /\ UNCHANGED notSem
  \/ \E k \in Tickets : ReleaseAgain(k) /\ UNCHANGED notSem
  \/ \E k \in Tickets : TimerFires(k) /\ UNCHANGED notSem

SemStart ==
  SemInit /\ GateParked /\ RingParked /\ DedupeParked /\ BatcherParked
    /\ LoreCycleParked
    /\ StoreParked
    /\ MarketingParked
    /\ XPublishParked
    /\ RouteParked
    /\ OrderParked
    /\ WindowParked

SpecSem ==
  SemStart /\ [][SemNext]_vars

\* The process's call sites of the generation backend around the permit gate.
notGate == <<ringVars, dedupeVars, batcherVars, workerVars,
  loreCycleVars,
  storeVars,
  marketingVars,
  xPublishVars,
  routeVars,
  orderVars,
  windowVars>>

GateNext ==
  \/ \E l \in Labels : SiteCall(l) /\ UNCHANGED notGate
  \/ \E k \in Tickets : SiteFnStart(k) /\ UNCHANGED notGate
  \/ \E k \in Tickets : GenCallStart(k) /\ UNCHANGED notGate
  \/ \E k \in Tickets : GenCallEnd(k) /\ UNCHANGED notGate
  \/ \E k \in Tickets : SiteFnEnd(k) /\ UNCHANGED notGate
  \/ BootCheckStart /\ UNCHANGED notGate
  \/ BootCheckEnd /\ UNCHANGED notGate

GateStart ==
  SemInit /\ GateInit /\ RingParked /\ DedupeParked /\ BatcherParked
    /\ LoreCycleParked
    /\ StoreParked
    /\ MarketingParked
    /\ XPublishParked
    /\ RouteParked
    /\ OrderParked
    /\ WindowParked

SpecGate ==
  GateStart /\ [][GateNext]_vars

\* One RingBuffer under any sequence of push and drain.
notRing == <<semVars, callerVars, gateVars, dedupeVars, batcherVars, workerVars,
  loreCycleVars,
  storeVars,
  marketingVars,
  xPublishVars,
  routeVars,
  orderVars,
  windowVars>>

RingNext ==
  \/ Push /\ UNCHANGED notRing
  \/ \E n \in (-1)..(MaxRingCap + 1) : Drain(n) /\ UNCHANGED notRing

RingStart ==
  RingInit /\ SemParked /\ GateParked /\ DedupeParked /\ BatcherParked
    /\ LoreCycleParked
    /\ StoreParked
    /\ MarketingParked
    /\ XPublishParked
    /\ RouteParked
    /\ OrderParked
    /\ WindowParked

SpecRing ==
  RingStart /\ [][RingNext]_vars

\* One DedupeStore under any sequence of markOnce calls.
notDedupe == <<semVars, callerVars, gateVars, ringVars, batcherVars, workerVars,
  loreCycleVars,
  storeVars,
  marketingVars,
  xPublishVars,
  routeVars,
  orderVars,
  windowVars>>

DedupeNext ==
  \/ \E key \in Keys : MarkOnce(key) /\ UNCHANGED notDedupe

DedupeStart ==
  DedupeInit /\ SemParked /\ GateParked /\ RingParked /\ BatcherParked
    /\ LoreCycleParked
    /\ StoreParked
    /\ MarketingParked
    /\ XPublishParked
    /\ RouteParked
    /\ OrderParked
    /\ WindowParked

SpecDedupe ==
  DedupeStart /\ [][DedupeNext]_vars

\* The LoreBatcher fed with records, with the worker draining its pending ring.
notBatcher == <<semVars, callerVars, gateVars, ringVars, dedupeVars,
               loreCycleVars,
  storeVars,
  marketingVars,
  xPublishVars,
  routeVars,
  orderVars,
  windowVars>>

BatcherNext ==
  \/ Ingest /\ UNCHANGED notBatcher
  \/ SetOnBatchReady /\ UNCHANGED notBatcher
  \/ RunOnce /\ UNCHANGED notBatcher
  \/ \E i \in 1..Len(running), failed \in BOOLEAN :
       CycleEnds(i, failed) /\ UNCHANGED notBatcher

BatcherStart ==
  BatcherInit /\ WorkerInit /\ SemParked /\ GateParked /\ RingParked /\ DedupeParked
    /\ LoreCycleParked
    /\ StoreParked
    /\ MarketingParked
    /\ XPublishParked
    /\ RouteParked
    /\ OrderParked
    /\ WindowParked

SpecBatcher ==
  BatcherStart /\ [][BatcherNext]_vars

\* A backlog builds up while nothing drains it (no ready callback registered
\* yet), then POST /lore/worker/run-once; once the worker has drained a batch
\* no record arrives any more. An awaited collaborator returns or throws.
DrainOpts ==
  {[roundsCapacity |-> 1, batchSize |-> b, pendingCapacity |-> p] :
     b \in 1..2, p \in 1..MaxDrainPending}

DrainInit ==
  /\ opts \in DrainOpts
  /\ rounds = RingNew(opts.roundsCapacity)
  /\ unbatchedQueue = <<>>
  /\ pendingBatches = RingNew(opts.pendingCapacity)
  /\ onBatchReady = FALSE
  /\ nearAiApiKey = TRUE
  /\ busy = FALSE
  /\ ingested = 0
  /\ formedLog = <<>>
  /\ lastIngest = [before |-> <<>>, batch |-> <<>>, after |-> <<>>]

SomeCycleEnds ==
  \E i \in 1..Len(running), failed \in BOOLEAN :
    CycleEnds(i, failed) /\ UNCHANGED notBatcher

DrainNext ==
  \/ drainLog = <<>> /\ Ingest /\ UNCHANGED notBatcher
  \/ RunOnce /\ UNCHANGED notBatcher
  \/ SomeCycleEnds

DrainStart ==
  DrainInit /\ WorkerInit /\ SemParked /\ GateParked /\ RingParked /\ DedupeParked
    /\ LoreCycleParked
    /\ StoreParked
    /\ MarketingParked
    /\ XPublishParked
    /\ RouteParked
    /\ OrderParked
    /\ WindowParked

SpecDrain ==
  DrainStart /\ [][DrainNext]_vars /\ WF_vars(SomeCycleEnds)

\* The running service: the ready callback is registered and the generation key
\* is configured, records arrive at any time, and nothing but the batcher's
\* callback and the worker's own finally block ever calls tick(). An awaited
\* collaborator returns or throws.
WakeOpts ==
  {[roundsCapacity |-> 1, batchSize |-> b, pendingCapacity |-> p] :
     b \in 1..2, p \in 1..MaxPendingCap}

WakeInit ==
  /\ opts \in WakeOpts
  /\ rounds = RingNew(opts.roundsCapacity)
  /\ unbatchedQueue = <<>>
  /\ pendingBatches = RingNew(opts.pendingCapacity)
  /\ onBatchReady = TRUE
  /\ nearAiApiKey = TRUE
  /\ busy = FALSE
  /\ ingested = 0
  /\ formedLog = <<>>
  /\ lastIngest = [before |-> <<>>, batch |-> <<>>, after |-> <<>>]

WakeNext ==
  \/ Ingest /\ UNCHANGED notBatcher
  \/ SomeCycleEnds

WakeStart ==
  WakeInit /\ WorkerInit /\ SemParked /\ GateParked /\ RingParked /\ DedupeParked
    /\ LoreCycleParked
    /\ StoreParked
    /\ MarketingParked
    /\ XPublishParked
    /\ RouteParked
    /\ OrderParked
    /\ WindowParked

SpecWake ==
  WakeStart /\ [][WakeNext]_vars /\ WF_vars(SomeCycleEnds)

\* One cycle of the worker under every configuration, clock and collaborator
\* outcome.
notLoreCycle == <<semVars, callerVars, gateVars, ringVars, dedupeVars,
                 batcherVars, workerVars,
  storeVars,
  marketingVars,
  xPublishVars,
  routeVars,
  orderVars,
  windowVars>>

LoreCycleNext ==
  \/ \E ok \in BOOLEAN : WriteLoreSettles(ok) /\ UNCHANGED notLoreCycle
  \/ \E ok \in BOOLEAN, text \in Texts :
       XNotificationSettles(ok, text) /\ UNCHANGED notLoreCycle
  \/ PermitReturns /\ UNCHANGED notLoreCycle
  \/ \E ok \in BOOLEAN : PublishNearSettles(ok) /\ UNCHANGED notLoreCycle
  \/ \E ok \in BOOLEAN : PublishXSettles(ok) /\ UNCHANGED notLoreCycle
  \/ ClockAdvances /\ UNCHANGED notLoreCycle

LoreCycleStart ==
  LoreCycleInit /\ SemParked /\ GateParked /\ RingParked /\ DedupeParked
    /\ BatcherParked
    /\ StoreParked
    /\ MarketingParked
    /\ XPublishParked
    /\ RouteParked
    /\ OrderParked
    /\ WindowParked

SpecLoreCycle ==
  LoreCycleStart /\ [][LoreCycleNext]_vars

\* The published-lore store under the worker's pushes, one per cycle that
\* published to NEAR Social, in processing order, with the clock moving on
\* between them.
notStore == <<semVars, callerVars, gateVars, ringVars, dedupeVars, batcherVars,
  workerVars, loreCycleVars,
  marketingVars,
  xPublishVars,
  routeVars,
  orderVars,
  windowVars>>

StoreNext ==
  \/ StorePushes /\ UNCHANGED notStore
  \/ StoreClockAdvances /\ UNCHANGED notStore

StoreStart ==
  StoreInit /\ SemParked /\ GateParked /\ RingParked /\ DedupeParked
    /\ BatcherParked /\ LoreCycleParked
    /\ MarketingParked
    /\ XPublishParked
    /\ RouteParked
    /\ OrderParked
    /\ WindowParked

SpecStore ==
  StoreStart /\ [][StoreNext]_vars

\* The Marketing Scheduler over the days: start(), the midnight re-plan, its
\* timers, manual triggers with and without force, and runs whose generation
\* and publication succeed or throw while the clock moves on.
notMarketing == <<semVars, callerVars, gateVars, ringVars, dedupeVars,
  batcherVars, workerVars, loreCycleVars, storeVars,
  xPublishVars,
  routeVars,
  orderVars,
  windowVars>>

\* the completion the scheduling runs get
OneRaw == {<<<<"*", "forest", "cards", "rise">>>>}

MarketingNext ==
  \/ MarketingStart /\ UNCHANGED notMarketing
  \/ MidnightPasses /\ UNCHANGED notMarketing
  \/ \E to \in {getLocalYMD(mkNow) * SecondsPerDay + s : s \in DayPoints}
               \cup {t.due : t \in mkTimers} :
       TimePasses(to) /\ UNCHANGED notMarketing
  \/ \E t \in mkTimers : MarketingTimerFires(t) /\ UNCHANGED notMarketing
  \/ \E force \in BOOLEAN : PostNow(force) /\ UNCHANGED notMarketing
  \/ MarketingPermitGranted /\ UNCHANGED notMarketing
  \/ \E ok \in BOOLEAN, raw \in OneRaw :
       MarketingGenerationSettles(ok, raw) /\ UNCHANGED notMarketing
  \/ \E ok \in BOOLEAN : MarketingPostSettles(ok) /\ UNCHANGED notMarketing

MarketingStartState ==
  MarketingInit /\ SemParked /\ GateParked /\ RingParked /\ DedupeParked
    /\ BatcherParked /\ LoreCycleParked /\ StoreParked
    /\ XPublishParked
    /\ RouteParked
    /\ OrderParked
    /\ WindowParked

SpecMarketing ==
  MarketingStartState /\ [][MarketingNext]_vars

\* The runs of generateAndPost on one day, triggered by hand, under every
\* completion of the generation backend.
DraftsNext ==
  \/ \E force \in BOOLEAN : PostNow(force) /\ UNCHANGED notMarketing
  \/ MarketingPermitGranted /\ UNCHANGED notMarketing
  \/ \E ok \in BOOLEAN, raw \in MarketingRaws :
       MarketingGenerationSettles(ok, raw) /\ UNCHANGED notMarketing
  \/ \E ok \in BOOLEAN : MarketingPostSettles(ok) /\ UNCHANGED notMarketing

DraftsStart ==
  DraftsInit /\ SemParked /\ GateParked /\ RingParked /\ DedupeParked
    /\ BatcherParked /\ LoreCycleParked /\ StoreParked
    /\ XPublishParked
    /\ RouteParked
    /\ OrderParked
    /\ WindowParked

SpecMarketingDrafts ==
  DraftsStart /\ [][DraftsNext]_vars

\* One publishLoreToXWithText call, under every outcome of the image
\* generation, the upload and each POST request.
notXPublish == <<semVars, callerVars, gateVars, ringVars, dedupeVars,
  batcherVars, workerVars, loreCycleVars, storeVars, marketingVars,
  routeVars,
  orderVars,
  windowVars>>

XPublishNext ==
  \/ XPublishCalled /\ UNCHANGED notXPublish
  \/ \E ok \in BOOLEAN : ImageSettles(ok) /\ UNCHANGED notXPublish
  \/ \E ok \in BOOLEAN : UploadSettles(ok) /\ UNCHANGED notXPublish
  \/ \E ok \in BOOLEAN : PostAttemptSettles(ok) /\ UNCHANGED notXPublish

XPublishStart ==
  XPublishInit /\ SemParked /\ GateParked /\ RingParked /\ DedupeParked
    /\ BatcherParked /\ LoreCycleParked /\ StoreParked /\ MarketingParked
    /\ RouteParked
    /\ OrderParked
    /\ WindowParked

SpecXPublish ==
  XPublishStart /\ [][XPublishNext]_vars

\* The route under deliveries of new round numbers in rising order, with a
\* few numbers delivered again while in the dedupe window and after leaving it.
notRoute == <<semVars, callerVars, gateVars, ringVars, dedupeVars,
  batcherVars, workerVars, loreCycleVars, storeVars, marketingVars,
  xPublishVars,
  orderVars,
  windowVars>>

RouteNext ==
  \/ NewRoundDelivered /\ UNCHANGED notRoute
  \/ \E r \in RepeatChoices : RoundRedelivered(r) /\ UNCHANGED notRoute
  \/ ProcessRoundSnapshot /\ UNCHANGED notRoute

RouteStart ==
  RouteInit /\ SemParked /\ GateParked /\ RingParked /\ DedupeParked
    /\ BatcherParked /\ LoreCycleParked /\ StoreParked /\ MarketingParked
    /\ XPublishParked
    /\ OrderParked
    /\ WindowParked

SpecRoute ==
  RouteStart /\ [][RouteNext]_vars

\* The call sites around the permit gate with every guarded function running
\* to its end: a granted call starts, issues its generation calls, each of
\* which settles, and returns or throws.
LiveSiteCall(l) ==
  /\ acquires < MaxLiveSiteCalls
  /\ SiteCall(l)

FnProceeds ==
  \E k \in Tickets :
    (SiteFnStart(k) \/ GenCallStart(k) \/ GenCallEnd(k) \/ SiteFnEnd(k))
      /\ UNCHANGED notGate

GateLiveNext ==
  \/ \E l \in Labels : LiveSiteCall(l) /\ UNCHANGED notGate
  \/ FnProceeds

SpecGateLive ==
  GateStart /\ [][GateLiveNext]_vars /\ WF_vars(FnProceeds)

\* Snapshots processed one after another while the round-result calls and the
\* lore cycles they start wait for, hold and release the permit.
notOrder == <<semVars, callerVars, gateVars, ringVars, dedupeVars,
             loreCycleVars, storeVars, marketingVars, xPublishVars, routeVars,
  windowVars>>

OrderNext ==
  \/ \E generates \in BOOLEAN : SnapshotProcessed(generates) /\ UNCHANGED notOrder
  \/ \E k \in 1..(2 * MaxOrderSnapshots) : OrdFnStarts(k) /\ UNCHANGED notOrder
  \/ \E k \in 1..(2 * MaxOrderSnapshots), how \in {"returned", "threw"},
        withX \in BOOLEAN :
       OrdFnEnds(k, how, withX) /\ UNCHANGED notOrder
  \/ OrdCycleEnds /\ UNCHANGED notOrder

OrderStart ==
  OrderBatcherInit /\ WorkerInit /\ OrderInit /\ SemParked /\ GateParked /\ RingParked
    /\ DedupeParked
    /\ LoreCycleParked
    /\ StoreParked
    /\ MarketingParked
    /\ XPublishParked
    /\ RouteParked
    /\ WindowParked

SpecOrder ==
  OrderStart /\ [][OrderNext]_vars

\* The window predicate called once with any local minute, or the minute picker
\* once with any random draw, under a range of settings.
notWindow == <<semVars, callerVars, gateVars, ringVars, dedupeVars, batcherVars,
              workerVars, loreCycleVars, storeVars, marketingVars, xPublishVars,
              routeVars, orderVars>>

WindowNext ==
  \/ \E m \in 0..(MinutesPerDay - 1) : WindowTested(m) /\ UNCHANGED notWindow
  \/ \E j \in WindowJitters, k \in 0..(2 * 31) :
       MinutePicked(j, k) /\ UNCHANGED notWindow

WindowStart ==
  WindowInit /\ SemParked /\ GateParked /\ RingParked /\ DedupeParked
    /\ BatcherParked
    /\ LoreCycleParked
    /\ StoreParked
    /\ MarketingParked
    /\ XPublishParked
    /\ RouteParked
    /\ OrderParked

SpecWindow ==
  WindowStart /\ [][WindowNext]_vars

\* ------------------------------------------------------------------ claims
\* the capabilities granted and not yet released
Holders == {k \in Tickets : promise[k] = "resolved" /\ ~released[k]}

\* the promises waiting in the queue, oldest first
Waiting == [i \in 1..Len(queue) |-> queue[i].p]

InSeq(x, sq) == \E i \in 1..Len(sq) : sq[i] = x

\* C1: after any interleaving of acquire(), timeout expiry and release() on the
\* capacity-1 semaphore, at most one permit is outstanding (granted and not yet
\* released) and available stays within 0..1.
C1_MutualExclusion ==
  /\ available \in 0..1
  /\ Cardinality(Holders) <= 1

\* a permit is held while a waiter queues, after a timeout expired and a
\* release was called
C1_Witness ==
  /\ Cardinality(Holders) = 1
  /\ queue # <<>>
  /\ \E k \in Tickets : promise[k] = "rejected"
  /\ \E k \in Tickets : relCalls[k] >= 1

\* the generation calls in flight: those of guarded functions and the boot check's
InFlight ==
  {<<"permit", k>> : k \in {j \in Tickets : inCall[j]}}
  \cup (IF bootCheck = "calling" THEN {<<"boot", 0>>} ELSE {})

\* C2: only one generation call is ever in flight: no two calls to the
\* generation backend, from any call site of the process (the boot-time
\* connection check included), overlap in any interleaving.
C2_SingleFlight == Cardinality(InFlight) <= 1

\* C3: permit grants are strictly FIFO with no queue-jumping: the permit is
\* obtained in the order of the acquire() calls; release() with waiters present
\* hands the slot, in the same step, to the longest-waiting caller; an acquire()
\* issued while a waiter is queued is never granted before that waiter; and a
\* caller's guarded work runs only after every earlier holder has released.
C3_FifoGrants ==
  /\ [](/\ \A i, j \in 1..Len(grantLog) : i < j => grantLog[i].p < grantLog[j].p
        /\ \A i \in 1..Len(queue) : \A k \in Tickets :
             k > queue[i].p => promise[k] # "resolved"
        /\ \A k \in Tickets : fnState[k] = "running" =>
             \A j \in Tickets : (j < k /\ promise[j] = "resolved") => released[j])
  /\ [][\A k \in Tickets :
          (~released[k] /\ released'[k] /\ queue # <<>>) =>
            /\ promise'[Head(queue).p] = "resolved"
            /\ grantLog' = Append(grantLog, [p |-> Head(queue).p, via |-> "release"])
            /\ queue' = Tail(queue)
            /\ available' = available]_vars

\* a waiter was handed the permit by a release while another waiter queued
\* behind it, and its work is running
C3_Witness ==
  /\ Len(grantLog) >= 2
  /\ grantLog[Len(grantLog)].via = "release"
  /\ fnState[grantLog[Len(grantLog)].p] = "running"
  /\ queue # <<>>

\* C4: a queued acquire(timeoutMs) whose timeout expires before it is granted
\* rejects, leaves the wait queue, is never granted afterwards and its guarded
\* function never runs; the expiry changes neither available nor the holder and
\* keeps the order of the remaining waiters; a waiter granted before its timer
\* fires is never rejected later.
C4_TimeoutAbandons ==
  /\ [](\A k \in Tickets : promise[k] = "rejected" =>
          /\ ~InSeq(k, Waiting)
          /\ \A i \in 1..Len(grantLog) : grantLog[i].p # k
          /\ fnState[k] \in {"awaiting", "failed"})
  /\ [][\A k \in Tickets :
          /\ (k \in timers /\ k \notin timers' /\ grantLog' = grantLog) =>
               /\ promise[k] = "pending"
               /\ promise'[k] = "rejected"
               /\ available' = available
               /\ Holders' = Holders
               /\ Waiting' = SelectSeq(Waiting, LAMBDA w : w # k)
          /\ promise[k] = "resolved" => promise'[k] = "resolved"]_vars

\* a waiter timed out and gave up, and a waiter queued behind it was granted
\* the permit later while others still wait
C4_Witness ==
  \E k \in Tickets :
    /\ promise[k] = "rejected"
    /\ fnState[k] = "failed"
    /\ \E j \in Tickets : j > k /\ InSeq([p |-> j, via |-> "release"], grantLog)
    /\ queue # <<>>

\* C5: release() is idempotent: a repeated call of the same release capability
\* changes nothing; it never raises available above capacity, never hands the
\* permit to a second waiter and never revokes the current holder's permit.
C5_ReleaseIdempotent ==
  /\ [](available <= capacity)
  /\ [][\A k \in Tickets :
          (relCalls[k] >= 1 /\ relCalls'[k] = relCalls[k] + 1) =>
            /\ available' = available
            /\ queue' = queue
            /\ promise' = promise
            /\ Holders' = Holders
            /\ grantLog' = grantLog]_vars

\* a capability was called twice while another caller holds the permit and a
\* waiter is queued
C5_Witness ==
  /\ \E k \in Tickets : relCalls[k] >= 2
  /\ Holders # {}
  /\ queue # <<>>

\* C6: the ring's length never exceeds its capacity C after any sequence of push
\* and drain; when only pushes were performed, the n-th push (n > C) evicts and
\* returns exactly the (n-C)-th pushed item; a push into a non-full ring evicts
\* nothing.
C6_RingBounded ==
  /\ rb.size <= rb.capacity
  /\ Len(RingToArray(rb)) <= rb.capacity
  /\ (lastOp.op = "push" /\ onlyPushes /\ pushes > rb.capacity) =>
       lastOp.dropped = <<pushes - rb.capacity>>
  /\ (lastOp.op = "push" /\ lastOp.before.size < rb.capacity) =>
       lastOp.dropped = <<>>

\* with pushes only, a push past the capacity of a ring of capacity >= 2 has
\* just evicted an item
C6_Witness ==
  /\ lastOp.op = "push"
  /\ onlyPushes
  /\ rb.capacity >= 2
  /\ pushes >= rb.capacity + 2
  /\ lastOp.dropped # <<>>

\* C7: drain(n) removes and returns exactly the min(n, length) oldest elements
\* in chronological order, and toArray() after it yields the remaining elements
\* in their original order; drain with n <= 0 returns nothing and changes
\* nothing.
C7_DrainPrefix ==
  lastOp.op = "drain" =>
    LET before == RingToArray(lastOp.before)
        k == IF lastOp.arg <= 0 THEN 0 ELSE Min(lastOp.arg, Len(before))
    IN /\ lastOp.out = SubSeq(before, 1, k)
       /\ RingToArray(rb) = SubSeq(before, k + 1, Len(before))
       /\ rb.size = Len(before) - k
       /\ lastOp.arg <= 0 => rb = lastOp.before

\* a drain took a proper, non-empty prefix of a ring whose window wraps around
\* the end of the backing array
C7_Witness ==
  /\ lastOp.op = "drain"
  /\ Len(lastOp.out) >= 1
  /\ Len(RingToArray(rb)) >= 1
  /\ lastOp.before.head + lastOp.before.size > lastOp.before.capacity

\* C8: for a DedupeStore of capacity K and any key, markOnce(key) returns true
\* the first time the key appears, false on every repeat while fewer than K
\* other new keys were marked since it was added, and true again once K other
\* new keys have evicted it: it returns false exactly when the key is among the
\* last K keys that were new.
C8_MarkOnceWindow == lastMark.called => (lastMark.ret = ~lastMark.inWindow)

\* C9: after m ingested records with batch size B, exactly floor(m/B) batches
\* were formed and m mod B records remain unbatched; the k-th batch holds the
\* records ingested at positions (k-1)*B+1 .. k*B in ingestion order, and the
\* unbatched queue holds the rest in order.
C9_BatchFormation ==
  LET B == opts.batchSize
  IN /\ Len(formedLog) = ingested \div B
     /\ Len(unbatchedQueue) = ingested % B
     /\ \A k \in 1..Len(formedLog) :
          formedLog[k].rounds = [i \in 1..B |-> (k - 1) * B + i]
     /\ unbatchedQueue = [i \in 1..(ingested % B) |-> (ingested \div B) * B + i]
     /\ \A i \in 1..Len(RingToArray(pendingBatches)) :
          InSeq(RingToArray(pendingBatches)[i], formedLog)

\* 45 records ingested with the production batch size 20: 2 batches, 5 unbatched
C9_Witness ==
  /\ opts = ProdOpts
  /\ ingested = 45
  /\ Len(formedLog) = 2
  /\ Len(unbatchedQueue) = 5

\* position of a batch in the formation order
FormedAt(b) == CHOOSE i \in 1..Len(formedLog) : formedLog[i] = b

\* C10: the pending ring never holds more than pendingCapacity batches; a batch
\* formed while the ring is full drops exactly the oldest pending batch, and the
\* pending batches stay in formation order.
C10_PendingOverflow ==
  LET pending == RingToArray(pendingBatches)
  IN /\ Len(pending) <= opts.pendingCapacity
     /\ pendingBatches.size <= opts.pendingCapacity
     /\ \A i, j \in 1..Len(pending) :
          i < j => FormedAt(pending[i]) < FormedAt(pending[j])
     /\ lastIngest.batch # <<>> =>
          lastIngest.after =
            (IF Len(lastIngest.before) = opts.pendingCapacity
             THEN Tail(lastIngest.before)
             ELSE lastIngest.before) \o lastIngest.batch

\* the last ingest formed a batch while a pending ring of capacity >= 2 was full
C10_Witness ==
  /\ lastIngest.batch # <<>>
  /\ opts.pendingCapacity >= 2
  /\ Len(lastIngest.before) = opts.pendingCapacity
  /\ Len(RingToArray(pendingBatches)) = opts.pendingCapacity

\* the elements of a sequence are pairwise different
NoDup(sq) == \A i, j \in 1..Len(sq) : i # j => sq[i] # sq[j]

\* the batches of the cycles that ended, in the order they ended
Processed == [i \in 1..Len(cycleLog) |-> cycleLog[i].batch]

C11_Fired ==
  /\ \A i \in 1..Len(notifyLog) :
       /\ InSeq(notifyLog[i].batch, formedLog)
       /\ notifyLog[i].pending # <<>>
       /\ notifyLog[i].pending[Len(notifyLog[i].pending)] = notifyLog[i].batch
  /\ NoDup([i \in 1..Len(notifyLog) |-> notifyLog[i].batch])
  /\ Len(notifyLog) <= Len(formedLog)

C11_IngestStep ==
  lastCall' = "ingest" =>
    /\ ingested' = ingested + 1
    /\ Len(unbatchedQueue') + opts.batchSize * (Len(formedLog') - Len(formedLog))
         = Len(unbatchedQueue) + 1
    /\ Len(notifyLog') - Len(notifyLog) <= Len(formedLog') - Len(formedLog)
    /\ (formedLog' = formedLog => notifyLog' = notifyLog)

\* C11: the ready callback is called at most once for a formed batch and only
\* when that batch is already the newest element of the pending ring; an ingest
\* that forms no batch calls it not at all; and an ingest whose callback ran
\* completes like any other: the record is taken in and batched.
C11_ReadyNotification == []C11_Fired /\ [][C11_IngestStep]_vars

\* two batches were notified, the last one by the ingest that just returned
C11_Witness ==
  /\ lastCall = "ingest"
  /\ lastIngest.batch # <<>>
  /\ Len(notifyLog) >= 2
  /\ notifyLog[Len(notifyLog)].batch = lastIngest.batch[1]

\* C12: a tick() that finds the worker idle, the generation key configured and
\* a batch pending turns the worker busy with the oldest pending batch; any
\* other tick() drains nothing and leaves busy, lastBatchId and lastError as
\* they were; without the key no step ever drains a batch.
C12_TickNoOp ==
  [][/\ lastCall' = "runOnce" =>
          IF ~busy /\ nearAiApiKey /\ pendingBatches.size >= 1
          THEN /\ busy'
               /\ RingToArray(pendingBatches') = Tail(RingToArray(pendingBatches))
               /\ lastBatchId' = <<Head(RingToArray(pendingBatches)).id>>
               /\ lastError' = <<>>
               /\ running' = <<Head(RingToArray(pendingBatches))>>
          ELSE UNCHANGED <<pendingBatches, busy, lastBatchId, lastError,
                           running, drainLog>>
     /\ (~busy /\ busy') => nearAiApiKey
     /\ ~nearAiApiKey => UNCHANGED <<drainLog, running, busy>>
    ]_vars

\* runOnce() was called with a batch pending and no generation key, after an
\* ingest: the batch is still pending and the worker idle
C12_Witness ==
  /\ lastCall = "runOnce"
  /\ ~nearAiApiKey
  /\ pendingBatches.size >= 1
  /\ ~busy
  /\ drainLog = <<>>

\* C13: at most one tick() is past its head at any time, and busy is true
\* exactly while the batch it drained has not finished its cycle.
C13_SelfSerializing ==
  /\ Len(running) <= 1
  /\ busy <=> running # <<>>

\* runOnce() was called while a cycle was in progress and another batch was
\* pending, with the ready callback registered
C13_Witness ==
  /\ lastCall = "runOnce"
  /\ busy
  /\ onBatchReady
  /\ pendingBatches.size >= 1
  /\ Len(cycleLog) >= 1

\* the backlog is processed: the worker is idle, nothing is pending, and the
\* cycles that ended are those of the batches that were pending, oldest first
Drained ==
  LET n == Min(Len(formedLog), opts.pendingCapacity)
  IN /\ ~busy
     /\ running = <<>>
     /\ pendingBatches.size = 0
     /\ Processed = SubSeq(formedLog, Len(formedLog) - n + 1, Len(formedLog))

\* C14: once runOnce() has started the worker on a backlog of N >= 1 pending
\* batches, with the generation key configured and every awaited collaborator
\* returning, all N batches are processed one at a time in pending order and the
\* worker ends idle with nothing pending, with no further call from outside.
C14_DrainToEmpty == (busy ~> Drained) /\ [](Len(running) <= 1)

\* a backlog of three batches was drained after one runOnce()
C14_Witness ==
  /\ Drained
  /\ Len(cycleLog) = 3
  /\ lastCall = "cycleEnds"
  /\ opts.pendingCapacity = 3

\* C15: when a step of a cycle throws, the error is stored in lastError, busy is
\* cleared, the batch of the cycle is not pending again, and with batches
\* pending the oldest of them is drained and started by the same finally block
\* (which clears lastError again for the new cycle).
C15_FailureDoesNotStall ==
  (lastEnd.called /\ lastEnd.failed) =>
    /\ lastEnd.caught = <<"err">>
    /\ ~InSeq(lastEnd.batch[1], lastEnd.pendingAfter)
    /\ IF lastEnd.pendingBefore = <<>>
       THEN /\ ~lastEnd.busyAfter
            /\ lastEnd.runningAfter = <<>>
            /\ lastEnd.pendingAfter = <<>>
            /\ lastEnd.errorAfter = <<"err">>
       ELSE /\ lastEnd.busyAfter
            /\ lastEnd.runningAfter = <<Head(lastEnd.pendingBefore)>>
            /\ lastEnd.pendingAfter = Tail(lastEnd.pendingBefore)

\* a cycle failed while two batches were pending
C15_Witness ==
  /\ lastCall = "cycleEnds"
  /\ lastEnd.failed
  /\ Len(lastEnd.pendingBefore) = 2
  /\ busy

\* C16: no batch is drained twice, every drained batch is one that was formed,
\* with the records it was formed with, and it is the batch of exactly one
\* cycle: the one in progress or one that ended, and it is not pending again.
C16_ConsumedOnce ==
  /\ NoDup(drainLog)
  /\ NoDup(Processed)
  /\ NoDup(running)
  /\ \A i \in 1..Len(drainLog) :
       /\ InSeq(drainLog[i], formedLog)
       /\ InSeq(drainLog[i], running) # InSeq(drainLog[i], Processed)
       /\ ~InSeq(drainLog[i], RingToArray(pendingBatches))
  /\ \A i \in 1..Len(Processed) : InSeq(Processed[i], drainLog)
  /\ \A i \in 1..Len(running) : InSeq(running[i], drainLog)

\* three batches were drained: one cycle failed, one returned, one is running
C16_Witness ==
  /\ Len(drainLog) = 3
  /\ Len(running) = 1
  /\ \E i, j \in 1..Len(cycleLog) : cycleLog[i].failed /\ ~cycleLog[j].failed

\* the withNearAiPermit calls of the worker's lore cycle whose guarded function
\* has issued its first generation call and has not returned yet
LoreCycleCalling ==
  {k \in Tickets : label[k] = "lore_cycle" /\ fnState[k] = "running"
                   /\ callsMade[k] >= 1}

C17_NoForeignCall ==
  \A k \in LoreCycleCalling :
    /\ ~released[k]
    /\ \A j \in Tickets \ {k} :
         label[j] \in {"round_result", "marketing_post"} =>
           /\ ~inCall[j]
           /\ fnState[j] # "running"

C17_ReleaseStep ==
  \A k \in Tickets :
    label[k] = "lore_cycle" =>
      /\ (~released[k] /\ released'[k]) => (~inCall[k] /\ fnState'[k] = "done")
      /\ released[k] => (callsMade'[k] = callsMade[k] /\ ~inCall'[k])

\* C17: from the first generation call of a lore cycle until its guarded
\* function returns, the cycle holds the permit and neither a round-result nor
\* a marketing call site runs its guarded function or has a generation call in
\* flight; the permit is released only when the function is done, and the cycle
\* issues no generation call after that.
C17_SinglePermitHold == []C17_NoForeignCall /\ [][C17_ReleaseStep]_vars

\* a lore cycle is at its third generation call while a round-result call
\* waits in the queue for the permit
C17_Witness ==
  \E k \in LoreCycleCalling :
    /\ callsMade[k] >= 3
    /\ inCall[k]
    /\ \E j \in Tickets :
         /\ label[j] = "round_result"
         /\ promise[j] = "pending"
         /\ fnState[j] = "awaiting"

\* minute m lies in [T-30, T+30] around the marketing time T, on the clock
InWindow30(m) ==
  \E d \in (0 - 30)..30 :
    m = (config.marketingTime + d + MinutesPerDay) % MinutesPerDay

\* what a skipped and what a not skipped secondary step leave behind
C18_Outcome ==
  IF windowCheck.skipped
  THEN /\ xGenCalls = 0
       /\ attempt = 0
       /\ xText = <<>>
       /\ xPosts = <<>>
       /\ skipLog = <<[reason |-> "marketing_window", at |-> windowCheck.at]>>
  ELSE /\ xGenCalls >= 1
       /\ attempt >= 1
       /\ skipLog = <<>>

\* C18 as stated: with short-form publication enabled, the secondary step is
\* skipped exactly when the time of the check lies in [T-30, T+30]: nothing
\* generated, nothing posted, one log entry with reason marketing_window.
C18_SkipInWindow ==
  windowCheck.done =>
    /\ windowCheck.skipped <=> InWindow30(windowCheck.at)
    /\ C18_Outcome

\* C18 amended: the same, for a Marketing Scheduler that is enabled; with the
\* scheduler disabled the secondary step proceeds at every time of day.
C18_SkipInWindowWhenEnabled ==
  windowCheck.done =>
    /\ windowCheck.skipped <=>
         (config.marketingEnabled /\ InWindow30(windowCheck.at))
    /\ C18_Outcome

\* a cycle that finished after its secondary step was skipped at minute T+30,
\* the last minute of the window
C18_Witness ==
  /\ windowCheck.done
  /\ windowCheck.skipped
  /\ windowCheck.at = (config.marketingTime + 30) % MinutesPerDay
  /\ pc = "done"
  /\ elapsed = MaxElapsed

\* C19: with the Marketing Scheduler enabled, no publishLoreToXWithText call of
\* the worker is made at a minute inside [T-30, T+30], also when the clock
\* enters the window after the worker's window check.
C19_NoPostInWindow ==
  \A i \in 1..Len(xPosts) :
    ~(config.marketingEnabled /\ InWindow30(xPosts[i].at))

\* the acceptance predicate of the claim, for the account ids of the batch
C20_Acceptable(text) ==
  /\ text # <<>>
  /\ TextLength(text) <= 260
  /\ ~hasUrlLike(text)
  /\ ~hasHashtag(text)
  /\ \A i \in 1..Len(xAccountIds) : InTokens(xAccountIds[i], text)

\* C20: the secondary text the worker accepted, and every text it hands to the
\* short-form channel, is non-empty, at most 260 characters long, free of URLs
\* and hashtags, and contains every account id of the batch.
C20_AcceptedTextValid ==
  /\ xText # <<>> => C20_Acceptable(xText[1])
  /\ \A i \in 1..Len(xPosts) : C20_Acceptable(xPosts[i].text)

\* C21: a cycle that completes without throwing has appended its lore to
\* publishedLoreStore exactly once, after its long-form and short-form publish
\* steps, whether or not long-form publication is enabled; a cycle that throws
\* has appended nothing.
C21_StoredOnceAfterPublish ==
  /\ pc = "done" => Len(storePushes) = 1
  /\ pc = "failed" => storePushes = <<>>
  /\ \A i \in 1..Len(storePushes) :
       storePushes[i].xCallsBefore = Len(xPosts) /\ pc = "done"

\* the entries of s are in non-decreasing createdAt order and in the order
\* their batches were processed
C22_OldestToNewest(s) ==
  \A i, j \in 1..Len(s) :
    i < j => s[i].createdAt <= s[j].createdAt /\ s[i].batchId < s[j].batchId

\* C22: the published-lore store never holds more than its capacity of 10
\* entries; a push to the full store evicts exactly the oldest entry; and the
\* entries, as the store holds them and as the worker hands them to the
\* generation context, are in non-decreasing createdAt order, which is the
\* order in which their batches were processed, oldest first.
C22_BoundedOrderedStore ==
  /\ StoreSize(store) <= PublishedLoreCapacity
  /\ StoreSize(store) = Len(RingToArray(store))
  /\ lastStorePush.called =>
       /\ lastStorePush.after = RingToArray(store)
       /\ lastStorePush.after =
            (IF Len(lastStorePush.before) = PublishedLoreCapacity
             THEN Tail(lastStorePush.before)
             ELSE lastStorePush.before) \o lastStorePush.entry
  /\ C22_OldestToNewest(RingToArray(store))
  /\ memOldestFirst(store) = RingToArray(store)
  /\ C22_OldestToNewest(memOldestFirst(store))

\* the full store took one more push: the oldest entry went, the clock had
\* moved between the entries that stayed
C22_Witness ==
  /\ lastStorePush.called
  /\ Len(lastStorePush.before) = PublishedLoreCapacity
  /\ Len(lastStorePush.after) = PublishedLoreCapacity
  /\ lastStorePush.before[1].batchId = 2
  /\ lastStorePush.after[1].batchId = 3
  /\ lastStorePush.after[1].createdAt < lastStorePush.entry[1].createdAt
  /\ store.head = 2

\* C23: of the marketing posts published on one local calendar day, under any
\* sequence of timer firings, midnight re-plans, late-boot triggers and manual
\* triggers, only the first may come from a run without force: a second post
\* on the same day is a forced manual one.
C23_OnePostPerDay ==
  \A i, j \in 1..Len(mkPosts) :
    (i < j /\ mkPosts[i].day = mkPosts[j].day) =>
      (mkPosts[j].force /\ mkPosts[j].reason = "manual")

\* C24: every marketing post handed to the publisher passed the
\* anti-repetition guards against the accepted posts remembered at that time
\* (at most 10): it shares neither its first long word, nor its first two,
\* nor its first four with any of them, and its token-Jaccard similarity to
\* each of them is below 0.62.
C24_NoRepetitionPublished ==
  \A i \in 1..Len(mkPosts) :
    /\ Len(mkPosts[i].recentBefore) <= MarketingRecentTextsMax
    /\ isTooSimilarToRecent(mkPosts[i].text, mkPosts[i].recentBefore).ok

\* the part of C25 about the drafts of a run: at most MarketingMaxAttempts of
\* them, all generated inside the run's single permit hold, the first with
\* no hint and each later one prompted with the reason its predecessor was
\* rejected for; the loop stops at the first draft that passes
C25_Drafts(ds, holds) ==
  /\ Len(ds) <= MarketingMaxAttempts
  /\ holds <= 1
  /\ \A i \in 1..Len(ds) :
       /\ ds[i].attempt = i
       /\ ds[i].hold = 1
       /\ ds[i].hint = IF i = 1 THEN "(none)" ELSE ds[i - 1].reason
       /\ i > 1 => ~ds[i - 1].ok
       /\ ds[i].ok = validateMarketingText(ds[i].text).ok

\* the run's loop returned: a draft passed, or the attempts are exhausted
C25_Returned(r) ==
  /\ r.ended
  /\ r.drafts # <<>>
  /\ r.drafts[Len(r.drafts)].ok \/ Len(r.drafts) = MarketingMaxAttempts

\* C25 as stated: per post at most 2 drafts are generated, all inside one
\* permit hold, each rejected draft's reason is the hint of the next attempt,
\* the first draft that passes validation is handed to the publisher, and
\* after 2 rejected drafts the last one is handed to the publisher anyway.
C25_BoundedRegeneration ==
  /\ C25_Drafts(mkDrafts, mkHolds)
  /\ lastRun.ended => C25_Drafts(lastRun.drafts, lastRun.holds)
  /\ C25_Returned(lastRun) =>
       lastRun.handed = <<lastRun.drafts[Len(lastRun.drafts)].text>>

\* C25 amended: the same, but a last draft that is empty is not published:
\* the run fails with marketing_empty_text and publishes nothing.
C25_BoundedRegenerationNonEmpty ==
  /\ C25_Drafts(mkDrafts, mkHolds)
  /\ lastRun.ended => C25_Drafts(lastRun.drafts, lastRun.holds)
  /\ C25_Returned(lastRun) =>
       LET last == lastRun.drafts[Len(lastRun.drafts)]
       IN IF last.text # <<>>
          THEN lastRun.handed = <<last.text>>
          ELSE /\ ~last.ok
               /\ lastRun.handed = <<>>
               /\ lastRun.failed
               /\ lastRun.err = "marketing_empty_text"
               /\ lastRun.posted = 0

\* a run whose two drafts were both rejected, the second for the reason given
\* to it as the hint of the first, published its second draft
C25_Witness ==
  /\ lastRun.ended
  /\ ~lastRun.failed
  /\ Len(lastRun.drafts) = MarketingMaxAttempts
  /\ ~lastRun.drafts[1].ok
  /\ ~lastRun.drafts[2].ok
  /\ lastRun.drafts[1].reason # lastRun.drafts[2].reason
  /\ lastRun.handed = <<lastRun.drafts[2].text>>
  /\ lastRun.posted = 1

\* what a failed run leaves behind: the error in lastError, the posted state
\* as it was, inFlight reset, nothing published
C26_FailureRecorded ==
  (lastRun.ended /\ lastRun.failed) =>
    /\ lastRun.err \in {"generation_failed", "marketing_empty_text",
                        "x_publish_failed"}
    /\ lastRun.posterAfter.lastError = <<lastRun.err>>
    /\ lastRun.posterAfter.stateCache = lastRun.cacheBefore
    /\ ~lastRun.posterAfter.inFlight
    /\ lastRun.posted = 0

\* every automatic attempt after another one was armed by a re-plan at a
\* local midnight later than that earlier attempt
C26_OneAttemptPerPlan ==
  \A i, j \in 1..Len(autoFires) :
    i < j =>
      /\ autoFires[j].planned % SecondsPerDay = 0
      /\ autoFires[j].planned >= (autoFires[i].ymd + 1) * SecondsPerDay

\* the end of a failed run arms no timer and clears none
C26_FailureArmsNothing ==
  (mkRun.pc # "idle" /\ mkRun'.pc = "idle" /\ lastRun'.failed) =>
    /\ mkTimers' = mkTimers
    /\ mkSetTimeouts' = mkSetTimeouts
    /\ mkPosts' = mkPosts

\* C26: when generation or publication throws, the error is recorded in
\* lastError, lastPostedYmd and recentTexts are unchanged, inFlight is reset,
\* the process is not terminated, nothing is published, the failure arms no
\* timer, and the next automatic attempt is one armed by a later
\* local-midnight re-plan.
C26_FailedRunNoRetry ==
  /\ [](~mkTerminated /\ C26_FailureRecorded /\ C26_OneAttemptPerPlan)
  /\ [][C26_FailureArmsNothing]_vars

\* the scheduled run of day 1 failed at postTweet after day 0 was posted:
\* the posted state still names day 0 and no timer is armed
C26_Witness ==
  /\ lastRun.ended
  /\ lastRun.failed
  /\ lastRun.reason = "scheduled"
  /\ lastRun.err = "x_publish_failed"
  /\ lastRun.cacheBefore.lastPostedYmd = <<0>>
  /\ poster.stateCache.lastPostedYmd = <<0>>
  /\ getLocalYMD(mkNow) = 1
  /\ Len(autoFires) = 2
  /\ mkTimers = {}
  /\ poster.lastError = <<"x_publish_failed">>

\* the end of the local day the instant t lies in
C27_EndOfDay(t) == (getLocalYMD(t) + 1) * SecondsPerDay

\* the minute of the last plan: an integer of the day within the jitter of
\* the base minute, the base minute itself without jitter
C27_MinuteInRange ==
  LET base == mkConfig.marketingTime
      jitter == mkConfig.marketingJitterMinutes
  IN /\ lastPlan.minute \in 0..(MinutesPerDay - 1)
     /\ IF jitter <= 0 THEN lastPlan.minute = base
        ELSE /\ lastPlan.minute >= base - jitter
             /\ lastPlan.minute <= base + jitter
     /\ poster.lastPlannedMinute = <<lastPlan.minute>>

\* the last plan left exactly one timer armed, its own
C27_OneTimer ==
  /\ Cardinality(lastPlan.armedAfter) = 1
  /\ \A t \in lastPlan.armedAfter :
       /\ t.due = lastPlan.at + lastPlan.waitMs \div 1000
       /\ t.reason = lastPlan.reason
       /\ t \notin lastPlan.armedBefore

\* C27 as stated: the planned minute is an integer within the jitter of the
\* base minute and within 0..1439, the base itself when the jitter is <= 0;
\* a plan leaves exactly one timer armed, and the timer is due no later than
\* the end of the local day the plan was made on.
C27_PlanWithinDay ==
  /\ Cardinality(mkTimers) <= 1
  /\ (lastPlan.called /\ lastPlan.planned) =>
       /\ C27_MinuteInRange
       /\ C27_OneTimer
       /\ lastPlan.waitMs > 0
       /\ lastPlan.at + lastPlan.waitMs \div 1000 <= C27_EndOfDay(lastPlan.at)

\* what holds of every plan: minute and timer as above; a plan whose minute
\* is still ahead is due at that minute of the day, and a plan made after
\* its minute has passed arms a timer of 30 seconds, whatever is left of
\* the day
C27_PlanWithinDayUnlessLate ==
  /\ Cardinality(mkTimers) <= 1
  /\ (lastPlan.called /\ lastPlan.planned) =>
       /\ C27_MinuteInRange
       /\ C27_OneTimer
       /\ lastPlan.waitMs > 0
       /\ IF lastPlan.reason = "scheduled"
          THEN /\ lastPlan.at + lastPlan.waitMs \div 1000
                    = getLocalYMD(lastPlan.at) * SecondsPerDay
                        + lastPlan.minute * 60
               /\ lastPlan.at + lastPlan.waitMs \div 1000
                    < C27_EndOfDay(lastPlan.at)
          ELSE /\ lastPlan.reason = "late_boot"
               /\ LocalSecond(lastPlan.at) >= lastPlan.minute * 60
               /\ lastPlan.waitMs = 30000

\* the midnight re-plan cleared a timer still armed and armed its own, for a
\* minute that the end of the day clamped
C27_Witness ==
  /\ lastPlan.called
  /\ lastPlan.planned
  /\ lastPlan.armedBefore # {}
  /\ Cardinality(lastPlan.armedAfter) = 1
  /\ lastPlan.armedAfter \cap lastPlan.armedBefore = {}
  /\ lastPlan.reason = "scheduled"
  /\ mkConfig.marketingTime = 1439
  /\ lastPlan.minute = 1439

\* the media path of the call failed at one of its steps
C28_MediaFailed ==
  \/ xp.image = "failed"
  \/ xp.upload = "failed"
  \/ xp.mediaPost = "failed"
  \/ (xpConfig.xEnableImages /\ PromptMissing(xpArgs.imagePrompt)
        /\ xp.pc # "idle")

\* the requests of the text-only post, oldest first
C28_TextRequests == SelectSeq(xpRequests, LAMBDA r : ~r.media)

\* C28: when the image generation or the upload (or the media post) fails,
\* the accepted text is posted text-only; at most one post of the batch, with
\* media or text-only, succeeds, it carries the accepted text, and the cycle
\* fails only if the text-only post itself failed at all its attempts.
C28_TextOnlyFallback ==
  /\ Len(xpTweets) <= 1
  /\ \A i \in 1..Len(xpTweets) : xpTweets[i].text = xpArgs.text
  /\ (C28_MediaFailed /\ xpConfig.xConfigured) =>
       /\ xp.pc \in {"postText", "returned", "thrown"}
       /\ xp.error # <<>>
       /\ xp.pc = "returned" =>
            xpTweets = <<[text |-> xpArgs.text, media |-> FALSE]>>
  /\ xp.mediaPost = "ok" => (xp.textPost = "none" /\ C28_TextRequests = <<>>)
  /\ xp.cycle = "failed" <=> xp.pc = "thrown"
  /\ xp.pc = "thrown" =>
       /\ xp.textPost = "failed"
       /\ xpTweets = <<>>
       /\ Len(C28_TextRequests) = XRetryAttempts
       /\ \A i \in 1..XRetryAttempts : ~C28_TextRequests[i].ok
  /\ xp.pc = "returned" =>
       (xpConfig.xConfigured <=> Len(xpTweets) = 1)

\* the image was generated, its upload failed, and the text went out as a
\* text-only post at the second attempt
C28_Witness ==
  /\ xp.pc = "returned"
  /\ xp.image = "ok"
  /\ xp.upload = "failed"
  /\ xp.textPost = "ok"
  /\ xp.cycle = "published"
  /\ xpRequests = <<[media |-> FALSE, ok |-> FALSE], [media |-> FALSE, ok |-> TRUE]>>
  /\ xpTweets = <<[text |-> xpArgs.text, media |-> FALSE]>>

\* the delivery j repeats a round number that an earlier delivery had
\* accepted, with fewer than RouteDedupeCapacity rounds accepted since
C29_InWindow(j) ==
  \E i \in 1..(j - 1) :
    /\ rtLog[i].round = rtLog[j].round
    /\ ~rtLog[i].deduped
    /\ rtLog[j].seq - rtLog[i].seq - 1 < RouteDedupeCapacity

\* the round numbers of the deliveries answered 202, in delivery order
C29_Accepted ==
  LET accepted == SelectSeq(rtLog, LAMBDA e : ~e.deduped)
  IN [i \in 1..Len(accepted) |-> accepted[i].round]

\* C29: a delivery of a round number accepted before and still among the
\* last 100 accepted round numbers is answered 200 deduped and processed no
\* further; every other delivery is answered 202 and its round is given to
\* loreBatcher.ingest once, in delivery order.
C29_DeliveredOnceInOrder ==
  /\ rtLog # <<>> =>
       LET last == rtLog[Len(rtLog)]
       IN /\ last.deduped <=> C29_InWindow(Len(rtLog))
          /\ last.status = IF last.deduped THEN 200 ELSE 202
  /\ rtIngested \o rtMicrotasks = C29_Accepted
  /\ Len(rtMicrotasks) <= 1

\* round 1 was delivered three times: accepted, answered as deduped when it
\* was the oldest of the 100 rounds of the window, and accepted again once
\* round 101 had pushed it out
C29_Witness ==
  /\ rtMicrotasks = <<>>
  /\ Len(rtLog) = RouteDedupeCapacity + 3
  /\ rtLog[1].round = 1 /\ ~rtLog[1].deduped
  /\ rtLog[RouteDedupeCapacity + 1].round = 1
  /\ rtLog[RouteDedupeCapacity + 1].deduped
  /\ rtLog[RouteDedupeCapacity + 2].round = RouteDedupeCapacity + 1
  /\ rtLog[RouteDedupeCapacity + 3].round = 1
  /\ ~rtLog[RouteDedupeCapacity + 3].deduped
  /\ Len(rtIngested) = RouteDedupeCapacity + 2
  /\ rtIngested[RouteDedupeCapacity + 2] = 1

\* C30: after any sequence of push and drain calls, the wrap of head and tail
\* past the end of the backing array included, toArray() is the reference
\* queue, and length is the number of elements toArray() returns.
C30_RingIsFifo ==
  /\ RingToArray(rb) = refFifo
  /\ rb.size = Len(RingToArray(rb))
  /\ lastOp.op = "drain" =>
       lastOp.out \o RingToArray(rb) = RingToArray(lastOp.before)

\* a ring of capacity 3 whose window wraps: after a push that dropped the
\* oldest element, a drain and a push, the oldest element sits in the last
\* slot of the backing array and the newer ones in the first two
C30_Witness ==
  /\ rb.capacity = 3
  /\ rb.head = 2
  /\ rb.size = 3
  /\ ~onlyPushes
  /\ lastOp.op = "push"
  /\ rb.buf = [i \in 0..2 |-> IF i = 2 THEN <<3>> ELSE <<i + 4>>]
  /\ refFifo = <<3, 4, 5>>

\* every guarded function that ended, however it ended, gave its permit back
\* with the one release() call of the finally block, and the permits out are
\* those of the calls granted and not yet ended
C31_ReleasedOnce ==
  /\ \A k \in Tickets :
       /\ fnEnd[k] # "none" =>
            (fnState[k] = "done" /\ released[k] /\ relCalls[k] = 1)
       /\ fnState[k] \in {"awaiting", "running"} =>
            (~released[k] /\ relCalls[k] = 0)
  /\ available + Cardinality(Holders) = capacity

\* the end of a guarded function hands the permit to the longest waiting
\* caller, or leaves it free for the next acquire()
C31_NextObtains ==
  \A k \in Tickets :
    (fnEnd[k] = "none" /\ fnEnd'[k] # "none") =>
      /\ ~released[k] /\ released'[k]
      /\ IF queue # <<>>
         THEN /\ promise'[Head(queue).p] = "resolved"
              /\ Holders' = {Head(queue).p}
         ELSE /\ available' = capacity
              /\ Holders' = {}

\* C31: whenever the function guarded by withNearAiPermit ends, by returning
\* or by throwing (a failed or aborted generation call, or no accepted text
\* after all attempts), the permit is released exactly once, and the next
\* waiter, or the next acquire(), obtains it.
C31_PermitNeverLeaked == []C31_ReleasedOnce /\ [][C31_NextObtains]_vars

\* a lore cycle threw for having accepted no text, the round-result call
\* that waited behind it was handed the permit and threw too, and the permit
\* is free again
C31_Witness ==
  \E k, j \in Tickets :
    /\ label[k] = "lore_cycle"
    /\ fnEnd[k] = "validation_exhausted"
    /\ label[j] = "round_result"
    /\ \E i \in 1..Len(grantLog) : grantLog[i] = [p |-> j, via |-> "release"]
    /\ fnEnd[j] = "call_failed"
    /\ available = capacity

\* the calls a call site has issued and that have not ended
C32_Open(l) ==
  {k \in Tickets : label[k] = l /\ fnState[k] \in {"awaiting", "running"}}

\* no actor requests the permit while it holds it or waits for it: the
\* worker and the marketing scheduler have one call open at most, and a call
\* that holds the permit is not in the queue
C32_NoRequestWhileHolding ==
  /\ Cardinality(C32_Open("lore_cycle")) <= 1
  /\ Cardinality(C32_Open("marketing_post")) <= 1
  /\ \A k \in Holders : ~InSeq(k, Waiting)
  /\ queue # <<>> => Holders # {}

Dropped(b) ==
  /\ InSeq(b, formedLog)
  /\ ~InSeq(b, RingToArray(pendingBatches))
  /\ ~InSeq(b, drainLog)

\* a batch is pending only while a cycle is in progress
C33_PendingOnlyWhileBusy == pendingBatches.size > 0 => busy

\* the formed batches that are neither processed nor dropped
Unsettled ==
  {n \in 1..Len(formedLog) :
     ~InSeq(formedLog[n], Processed) /\ ~Dropped(formedLog[n])}

\* C33: with the generation key configured and the ready callback registered,
\* a batch that becomes pending while the worker is busy is started by the
\* finally block of a cycle with no call from outside: no batch is pending while
\* the worker is idle, and whenever formed batches are waiting or in their
\* cycle, a state follows in which every formed batch is processed or was
\* dropped by an overflow of the pending ring.
C33_NoLostWakeUp ==
  /\ []C33_PendingOnlyWhileBusy
  /\ (Unsettled # {}) ~> (Unsettled = {})

\* batches became pending while a cycle was in progress (one of them was
\* overwritten in the full ring by a later one), and the worker is idle again
\* with every batch that was not overwritten processed
C33_Witness ==
  /\ ~busy
  /\ pendingBatches.size = 0
  /\ \E n \in 1..Len(formedLog) : Dropped(formedLog[n])
  /\ InSeq(formedLog[Len(formedLog)], Processed)
  /\ Len(cycleLog) >= 2
  /\ lastEnd.pendingBefore = <<>>

\* the position of call k in the order of grants, 0 while it is not granted
GrantPos(k) ==
  IF \E i \in 1..Len(ord.grants) : ord.grants[i] = k
  THEN CHOOSE i \in 1..Len(ord.grants) : ord.grants[i] = k
  ELSE 0

\* the position of the first generation of a kind for round n, 0 if none
GenPos(kind, n) ==
  LET hits == {i \in 1..Len(ord.gen) :
                 ord.gen[i].kind = kind /\ ord.gen[i].key = n}
  IN IF hits = {} THEN 0 ELSE CHOOSE i \in hits : \A j \in hits : i <= j

LoreCalls == {k \in 1..Len(ord.calls) : ord.calls[k].label = "lore_cycle"}

RoundResultCalls(n) ==
  {j \in 1..Len(ord.calls) :
     ord.calls[j].label = "round_result" /\ ord.calls[j].key = n}

\* the round-result call of the round that completed a batch is ahead of the
\* lore cycle of that batch: in the requests, in the grants, in the generations
C34_RoundResultAhead ==
  /\ \A k \in LoreCalls : \A j \in RoundResultCalls(ord.calls[k].key) :
       /\ j < k
       /\ GrantPos(k) > 0 => (GrantPos(j) > 0 /\ GrantPos(j) < GrantPos(k))
       /\ GenPos("lore", ord.calls[k].key) > 0 =>
            /\ GenPos("round_result", ord.calls[k].key) > 0
            /\ GenPos("round_result", ord.calls[k].key)
                 < GenPos("lore", ord.calls[k].key)
  /\ \A i \in 1..Len(ord.gen) :
       ord.gen[i].kind = "x_notification" =>
         /\ GenPos("lore", ord.gen[i].key) > 0
         /\ GenPos("lore", ord.gen[i].key) < i

\* C34 (as stated): for every snapshot whose ingestion completes a batch, a
\* round-result call for that round has requested the permit before the lore
\* cycle of the batch, and the generations come in the order round-result, lore,
\* secondary notification.
C34_RoundResultFirst ==
  /\ C34_RoundResultAhead
  /\ \A k \in LoreCalls : RoundResultCalls(ord.calls[k].key) # {}

\* C34: when processRoundSnapshot starts a round-result generation for the
\* snapshot that completes a batch, that call requests the permit before the lore
\* cycle of the batch, is granted it first and generates first, and the
\* secondary notification is generated after the lore; a snapshot with nothing to
\* comment on makes no round-result call, and the lore cycle goes alone.
C34_RoundResultFirstWhenGenerated ==
  /\ C34_RoundResultAhead
  /\ \A j \in 1..Len(ord.calls) :
       ord.calls[j].label = "round_result" =>
         \A k \in LoreCalls : ord.calls[k].key >= ord.calls[j].key => j < k

\* the second snapshot completed a batch of two while the permit was free: its
\* round-result comment, the lore of its batch and the secondary text were
\* generated in this order
C34_Witness ==
  /\ opts.batchSize = 2
  /\ GenPos("round_result", 2) > 0
  /\ GenPos("round_result", 2) < GenPos("lore", 2)
  /\ GenPos("lore", 2) < GenPos("x_notification", 2)
  /\ ord.grants = <<1, 2, 3>>
  /\ ord.calls[3].label = "lore_cycle"

\* the attempt loop ended with no accepted text
C35_Exhausted ==
  /\ pc = "failed"
  /\ xGenCalls = XNotificationAttempts
  /\ xText = <<>>

C35_AtMostFourThenNothing ==
  /\ attempt <= XNotificationAttempts
  /\ xGenCalls <= XNotificationAttempts
  /\ xGenCalls = attempt
  /\ C35_Exhausted => (xPosts = <<>> /\ storePushes = <<>>)

\* a step of the cycle under the permit and after it
C35_Step ==
  /\ (pc = "xNotification" /\ attempt = XNotificationAttempts /\ pc' # pc)
       => \/ pc' = "permitReleased" /\ xText' # <<>>
          \/ pc' = "failed" /\ xText' = <<>>
  /\ (pc = "xNotification" /\ pc' = "failed")
       => (attempt = XNotificationAttempts /\ UNCHANGED <<xPosts, storePushes>>)
  /\ pc' \in {"publishNear", "publishX"}
       => pc \in {"permitReleased", "publishNear", "publishX"}
  /\ pc = "failed" => UNCHANGED <<pc, xPosts, storePushes, xGenCalls>>

\* C35: the secondary text is generated at most 4 times per cycle; when the
\* fourth attempt yields no accepted text either, the cycle fails from inside
\* the permit function, no publish step is reached, and nothing is posted to X
\* or pushed to the published-lore store, although the lore had been written.
C35_ExhaustionPublishesNothing ==
  []C35_AtMostFourThenNothing /\ [][C35_Step]_vars

\* four attempts were made after a successful lore and none was accepted, with
\* both channels enabled
C35_Witness ==
  /\ C35_Exhausted
  /\ attempt = XNotificationAttempts
  /\ config.publishLoreToX
  /\ config.publishLoreToNearSocial
  /\ windowCheck.done
  /\ ~windowCheck.skipped

\* inFlight is set exactly while a run is past its guards and has not ended
C36_InFlightWhileRunning == poster.inFlight <=> mkRun.pc # "idle"

\* a trigger (a timer firing or postNow, forced or not) that arrives during a
\* run returns at the guard: the run, the poster and the posts are as before
C36_TriggerInFlightIsNoOp ==
  (mkRun.pc # "idle" /\ (autoFires' # autoFires \/ mkManual' # mkManual))
    => UNCHANGED <<poster, mkRun, mkHolds, mkDrafts, mkPosts, lastRun>>

\* C36: at most one generateAndPost run is in flight: inFlight is true exactly
\* while a run is between its guards and its end, a trigger that arrives during
\* a run changes nothing, and after a run that succeeded or threw inFlight is
\* false.
C36_OneRunInFlight ==
  /\ [](C36_InFlightWhileRunning
          /\ (lastRun.ended => ~lastRun.posterAfter.inFlight))
  /\ [][C36_TriggerInFlightIsNoOp]_vars

\* the timer fired while the run that postNow started was in flight, and that
\* run is still the one in flight
C36_Witness ==
  /\ autoFires # <<>>
  /\ autoFires[Len(autoFires)].inFlight
  /\ mkRun.pc \in {"generate", "post"}
  /\ mkRun.reason = "manual"
  /\ poster.inFlight

\* a timer armed by planTodayOrTomorrow fires and its generateAndPost call
\* passes the guards
C37_AutoRunStarts ==
  /\ autoFires' # autoFires
  /\ mkRun.pc = "idle"
  /\ mkRun'.pc = "acquire"

\* C37: every run that a scheduled or late-boot timer starts begins at a local
\* minute inside the marketing window the worker tests with
\* isInMarketingWindowAt.
C37_AutoPostInsideWindow ==
  [][C37_AutoRunStarts
       => isInMarketingWindowAt(mkConfig, LocalSecond(mkNow) \div 60)]_vars

\* what holds: a run started by a timer planned for later the same day begins
\* inside the window when the jitter is at most half the window
C37_ScheduledRunInsideWindow ==
  [][(C37_AutoRunStarts /\ mkRun'.reason = "scheduled")
       => isInMarketingWindowAt(mkConfig, LocalSecond(mkNow) \div 60)]_vars

\* the distance between two minutes on the 1440-minute circle
CircularDistance(a, b) ==
  LET d == (a - b + MinutesPerDay) % MinutesPerDay
  IN Min(d, MinutesPerDay - d)

C38_Half == Max(0, winArgs.width) \div 2

C38_Policy == windowOf(winArgs.base, winArgs.width)

\* C38: for every base minute and every window width, a minute is inside the
\* window exactly when its circular distance from the base is at most
\* floor(W/2); the base is inside, and windowStart and windowEnd are minutes of
\* the day.
C38_InsideIffWithinHalf ==
  winResult.called = "isInMarketingWindowAt" =>
    /\ C38_Policy.windowStartMinutes \in 0..(MinutesPerDay - 1)
    /\ C38_Policy.windowEndMinutes \in 0..(MinutesPerDay - 1)
    /\ winResult.minute = winArgs.base => winResult.inside
    /\ winResult.inside
         <=> CircularDistance(winResult.minute, winArgs.base) <= C38_Half

\* what holds: the same for a window shorter than a day
C38_InsideIffWithinHalfBelowADay ==
  winArgs.width < MinutesPerDay => C38_InsideIffWithinHalf

\* a window that wraps local midnight answered for a minute after midnight
C38_Witness ==
  /\ winResult.called = "isInMarketingWindowAt"
  /\ winArgs = [base |-> 1439, width |-> 60]
  /\ winResult.minute = 29
  /\ winResult.inside

\* what holds for the picker: the picked minute is inside the window when the
\* jitter is at most half the window and the window is shorter than a day
C37_PickedInsideWhenJitterFits ==
  (winResult.called = "pickJitteredPublishMinutes"
     /\ winResult.jitter <= C38_Half
     /\ winArgs.width < MinutesPerDay)
    => winResult.inside

\* the picked minute is inside the window for every jitter
C37_PickedInside ==
  winResult.called = "pickJitteredPublishMinutes" => winResult.inside

\* C39: after any sequence of markOnce calls, with any key strings (the empty
\* string among them), the remembered set holds exactly the keys of the eviction
\* queue, and neither has more than capacity elements.
C39_SetMatchesQueue ==
  /\ dd.set = {dd.queue[i] : i \in 1..Len(dd.queue)}
  /\ Cardinality(dd.set) <= dd.capacity
  /\ Len(dd.queue) <= dd.capacity

\* what holds: the queue is bounded and without repeats, its keys are
\* remembered, and a remembered key that is not queued is the empty string
C39_SetMatchesQueueButEmptyKey ==
  /\ Len(dd.queue) <= dd.capacity
  /\ \A i, j \in 1..Len(dd.queue) : dd.queue[i] = dd.queue[j] => i = j
  /\ {dd.queue[i] : i \in 1..Len(dd.queue)} \subseteq dd.set
  /\ dd.set \ {dd.queue[i] : i \in 1..Len(dd.queue)} \subseteq {""}

\* the records of the formed batches, in formation order
C40_Batched == Flatten([k \in 1..Len(formedLog) |-> formedLog[k].rounds])

\* the rounds ring holds the newest records whatever was batched, drained or
\* dropped, and every record ingested is in the unbatched queue or in one batch
\* whatever the rounds ring evicted
C40_RingAndQueueApart ==
  LET n == Min(ingested, opts.roundsCapacity)
  IN /\ RingToArray(rounds) = [i \in 1..n |-> ingested - n + i]
     /\ rounds.size <= opts.roundsCapacity
     /\ Len(unbatchedQueue) < opts.batchSize
     /\ C40_Batched \o unbatchedQueue = [i \in 1..ingested |-> i]

\* only ingest changes the rounds ring: a step that drains a pending batch
\* (runOnce, the end of a cycle) leaves it as it was
C40_OnlyIngestTouchesRounds ==
  (ingested' = ingested) => (rounds' = rounds /\ unbatchedQueue' = unbatchedQueue)

\* C40: the rounds ring and the batching queue are independent: a record the
\* rounds ring evicts stays in the unbatched queue or in its batch (also with
\* roundsCapacity below batchSize), draining or dropping a pending batch leaves
\* the rounds ring alone, and after every ingest fewer than batchSize records
\* are unbatched and at most roundsCapacity records are stored.
C40_RingQueueIndependent ==
  []C40_RingAndQueueApart /\ [][C40_OnlyIngestTouchesRounds]_vars

\* with roundsCapacity 1 and batchSize 3, the rounds ring holds the newest of
\* five records only, while one batch of three was formed, was drained, and the
\* two records after it are unbatched
C40_Witness ==
  /\ opts.roundsCapacity = 1
  /\ opts.batchSize = 3
  /\ ingested = 5
  /\ RingToArray(rounds) = <<5>>
  /\ unbatchedQueue = <<4, 5>>
  /\ Len(drainLog) = 1
  /\ drainLog[1].rounds = <<1, 2, 3>>

====
